---- MODULE Spec2Model ----
(***************************************************************************)
(* A model of the NATS -> Memgraph bridge: the message handler and its     *)
(* change cache, the per-subject batch buffer and its bounded drain, the   *)
(* row builder, the ordered batch writer, the TTL sweeper and the scene    *)
(* bootstrapper.  Payloads are JSON values, the graph is a set of labelled *)
(* nodes with property maps and a set of typed relationships.              *)
(***************************************************************************)
EXTENDS Integers, Sequences, FiniteSets, TLC

(***************************************************************************)
(* Bounds of the model.                                                    *)
(***************************************************************************)
\* messages the broker delivers in one behaviour
MaxMsgs == 3
\* BridgeConfig.max_batch_size as configured for the model (default 200)
MaxBatch == 2
\* wall clock, in half seconds
MaxClock == 4
\* BridgeConfig.rolling_window_seconds as configured for the model, in half seconds
RollingWindow == 1
\* Memgraph.pool_size as configured for the model (default 15)
pool_size == 3

(***************************************************************************)
(* Program constants.                                                      *)
(***************************************************************************)
\* tol=0.001 of the all_tracks route, in thousandths
TolAllTracks == 1
\* tol: float = 0.01 of has_changed, in thousandths
TolDefault == 10
\* the heartbeat period of process_batch: current_tick % 1000
HeartbeatTicks == 1000
\* BridgeConfig.cleanup_interval_seconds (default 1 s), in half seconds
CleanupInterval == 2

(***************************************************************************)
(* JSON values as orjson.loads returns them.  Floats are counted in        *)
(* thousandths.                                                            *)
(***************************************************************************)
NULL == [k |-> "null"]
JInt(n) == [k |-> "int", i |-> n]
JFloat(n) == [k |-> "float", f |-> n]
JBool(b) == [k |-> "bool", b |-> b]
JStr(s) == [k |-> "str", s |-> s]
JList(l) == [k |-> "list", l |-> l]
JDict(d) == [k |-> "dict", d |-> d]
\* to_json_str / orjson.dumps(...).decode(): the JSON text of a value
JText(v) == [k |-> "str", json |-> v]
\* f"{cameraID}_{current_tick}"
JFmt(cameraID, tick) == [k |-> "str", fmt |-> <<cameraID, tick>>]

EmptyMap == [x \in {} |-> NULL]
IsDict(v) == v.k = "dict"
IsList(v) == v.k = "list"

\* Python truthiness: `if x:`
Truthy(v) ==
    CASE v.k = "null" -> FALSE
      [] v.k = "bool" -> v.b
      [] v.k = "int" -> v.i # 0
      [] v.k = "float" -> v.f # 0
      [] v.k = "str" -> IF "s" \in DOMAIN v THEN v.s # "" ELSE TRUE
      [] v.k = "list" -> v.l # <<>>
      [] v.k = "dict" -> DOMAIN v.d # {}

\* dict.get(key, default) on a mapping
MapGet(m, key, default) == IF key \in DOMAIN m THEN m[key] ELSE default
\* {**base, **over}: dict update, the right operand wins
MapUpdate(base, over) ==
    [x \in DOMAIN base \cup DOMAIN over |->
        IF x \in DOMAIN over THEN over[x] ELSE base[x]]

Abs(n) == IF n < 0 THEN -n ELSE n
Min(a, b) == IF a < b THEN a ELSE b

(***************************************************************************)
(* CacheManager                                                            *)
(***************************************************************************)
\* the comparison without its tolerance: any difference counts
differs_at_all(a, b, tol) == a # b
RECURSIVE _is_meaningfully_different(_, _, _)
_is_meaningfully_different(a, b, tol) ==
    IF a.k # b.k THEN TRUE
    ELSE CASE a.k = "dict" ->
                IF DOMAIN a.d # DOMAIN b.d THEN TRUE
                ELSE \E x \in DOMAIN a.d :
                        _is_meaningfully_different(a.d[x], b.d[x], tol)
           [] a.k = "list" ->
                IF Len(a.l) # Len(b.l) THEN TRUE
                ELSE \E i \in 1..Len(a.l) :
                        _is_meaningfully_different(a.l[i], b.l[i], tol)
           [] a.k = "float" -> Abs(a.f - b.f) > tol
           [] OTHER -> a # b

\* has_changed and has_meaningful_change_sync share one body; the result is
\* the returned flag and the cache after the call.  A stored JSON null reads
\* as "no entry" (last is not None).
has_changed(c, topic, new_data, tol) ==
    LET last == MapGet(c, topic, NULL) IN
    IF last # NULL /\ ~_is_meaningfully_different(last, new_data, tol)
    THEN [changed |-> FALSE, cache |-> c]
    ELSE [changed |-> TRUE,
          cache |-> [x \in DOMAIN c \cup {topic} |->
                        IF x = topic THEN new_data ELSE c[x]]]

(***************************************************************************)
(* Timestamps.  datetime.isoformat() prints the fraction of a second only  *)
(* when its microsecond field is not 0; the graph compares the resulting   *)
(* strings character by character.  IsoTable[h + 1] is the text of the     *)
(* instant h (in half seconds) with the common date prefix left out and    *)
(* '+00:00' already replaced by 'Z'.                                       *)
(***************************************************************************)
IsoTable == <<"00:00Z", "00:00.5Z", "00:01Z", "00:01.5Z", "00:02Z", "00:02.5Z",
              "00:03Z", "00:03.5Z", "00:04Z", "00:04.5Z">>
IsoFormat(h) == IsoTable[h + 1]
Instants == 0..(Len(IsoTable) - 1)
InstantOf(s) == CHOOSE h \in Instants : IsoTable[h + 1] = s
\* the characters after the common prefix "00:0": the digit of the second,
\* then ".5" when the microsecond is not 0, then "Z"
Chars(s) ==
    LET h == InstantOf(s) IN
    <<48 + (h \div 2)>> \o (IF h % 2 = 1 THEN <<46, 53>> ELSE <<>>) \o <<90>>
RECURSIVE LexLess(_, _)
LexLess(a, b) ==
    IF b = <<>> THEN FALSE
    ELSE IF a = <<>> THEN TRUE
    ELSE IF Head(a) # Head(b) THEN Head(a) < Head(b)
    ELSE LexLess(Tail(a), Tail(b))
\* a.prop < $cutoff in a WHERE clause: NULL on either side matches nothing
CypherLess(a, b) ==
    /\ a.k = "str" /\ b.k = "str" /\ "s" \in DOMAIN a /\ "s" \in DOMAIN b
    /\ LexLess(Chars(a.s), Chars(b.s))

(***************************************************************************)
(* src/core/config.py: defaults of the row builder and the topic filter    *)
(***************************************************************************)
PLAYER_DEFAULTS ==
    [x \in {"category", "track_id", "bbox", "confidence", "world_x", "world_y",
            "transform_PAN", "transform_TILT", "dist", "ray_origin",
            "ray_world_space_dir"} |-> NULL]
BALL_DEFAULTS ==
    [x \in {"world_x", "world_y", "bbox", "transform_PAN", "transform_TILT",
            "confidence", "dist", "phi", "track_id", "velocity", "movement_score",
            "velocity_direction", "velocity_x", "velocity_y", "is_best", "id_score",
            "dist_score", "ray_origin", "ray_world_space_dir"} |-> NULL]
PTZ_DEFAULTS ==
    [x \in {"panposition", "tiltposition", "rollposition", "zoomposition",
            "focusposition", "pansetpoint", "tiltsetpoint", "zoomsetpoint",
            "panpower", "tiltpower", "rollpower", "pan", "tilt", "zoomspeed",
            "tickID", "panvelocity", "tiltvelocity", "zoomvelocity"} |->
        IF x = "tickID" THEN NULL ELSE JFloat(0)]
CAM_PARAMS_DEFAULTS ==
    [x \in {"intrinsic", "rotation", "translation", "tickID"} |-> NULL]
FUSION_BALL_3D_DEFAULTS ==
    [x \in {"timestamp", "position_world", "velocity_mps", "status",
            "fusion_method", "kalman_filtered", "smooth_2d", "camera_ready"} |-> NULL]
FUSED_PLAYER_DEFAULTS ==
    [x \in {"id", "x", "y", "z", "vel_x", "vel_y", "status", "category", "team"} |->
        IF x = "z" THEN JFloat(0) ELSE NULL]
INTENT_DEFAULTS ==
    [x \in {"status", "intent_id", "camera_id", "intent_type", "resolved_ttl_ms",
            "payload", "rule_definition", "reason"} |-> NULL]
LOW_VALUE_TOPICS == {"fps", "colour-control", "camera_mode_entry"}

(***************************************************************************)
(* Subjects are sequences of tokens: all_tracks.camera1 is                 *)
(* <<"all_tracks", "camera1">>.  startswith("ptzinfo.") holds of a subject *)
(* whose first token is ptzinfo and that has a second token.               *)
(***************************************************************************)
StartsWithToken(subject, tok) == Len(subject) >= 1 /\ subject[1] = tok
StartsWithTokenDot(subject, tok) == Len(subject) >= 2 /\ subject[1] = tok
StartsWithFusionBall(subject) ==
    Len(subject) >= 2 /\ subject[1] = "fusion" /\ subject[2] = "ball_3d"
StartsWithIntents(subject) ==
    Len(subject) >= 2 /\ subject[1] = "intents" /\ subject[2] = "processed"

VARIABLES
    buffer,             \* BatchProcessor._buffer, in dict order: <<[topic, items]>>
    cache,              \* CacheManager._cache
    current_tick,       \* NATSMemgraphBridge._current_tick
    metrics,            \* MetricsCollector._metrics: received and dropped counters
    graph,              \* the graph store: [nodes, rels, next]
    clock,              \* wall clock, in half seconds
    last_cleanup_time,  \* process_batch_loop's local of that name
    phase,              \* "start" before process_batch_loop's prologue, then "running"
    scene,              \* [initialized, complete]: _scene_initialized, and whether
                        \* every bootstrap statement succeeded
    received,           \* number of deliveries so far; a payload is known by its number
    drained,            \* per subject, the ids removed by process_batch, in order
    last,               \* what the last iteration of process_batch_loop did
    handled,            \* what the last message_handler call got and did
    seen,               \* per subject, the payload of its latest delivery
    connection_pool,    \* Memgraph.connection_pool: connections, the last on top
    held,               \* per caller of the pool, where it is and the connection it got
    shutdown_requested, \* NATSMemgraphBridge._shutdown_requested
    nc_closed,          \* self.nc.is_closed
    close_pc,           \* per call of close(), how far it has come
    shutdown_log,       \* the steps the calls of close() have performed, in order
    locks,              \* _global_lock and _topic_locks: the task that holds each
    tasks               \* per task that uses the buffer, the call it is in

vars == <<buffer, cache, current_tick, metrics, graph, clock, last_cleanup_time,
          phase, scene, received, drained, last, handled, seen,
          connection_pool, held, shutdown_requested, nc_closed, close_pc,
          shutdown_log, locks, tasks>>
\* the state of the graph client's pool, of shutdown, and of the buffer's
\* locks
pool_vars == <<connection_pool, held>>
close_vars == <<shutdown_requested, nc_closed, close_pc, shutdown_log>>
lock_vars == <<locks, tasks>>

(***************************************************************************)
(* BatchProcessor: the buffer                                              *)
(***************************************************************************)
BufferKeys(buf) == [i \in 1..Len(buf) |-> buf[i].topic]
BufferItems(buf, topic) ==
    IF \E i \in 1..Len(buf) : buf[i].topic = topic
    THEN buf[CHOOSE i \in 1..Len(buf) : buf[i].topic = topic].items
    ELSE <<>>
RECURSIVE SumLen(_)
SumLen(buf) == IF buf = <<>> THEN 0 ELSE Len(Head(buf).items) + SumLen(Tail(buf))
\* get_buffer_size, with no other task between its two steps
get_buffer_size(buf) == SumLen(buf)

\* add_to_buffer: self._buffer[topic].append(data) on a defaultdict(list); a
\* new key goes to the end of the dict order
add_to_buffer(buf, topic, item) ==
    IF \E i \in 1..Len(buf) : buf[i].topic = topic
    THEN [i \in 1..Len(buf) |->
            IF buf[i].topic = topic
            THEN [topic |-> topic, items |-> Append(buf[i].items, item)]
            ELSE buf[i]]
    ELSE Append(buf, [topic |-> topic, items |-> <<item>>])

(***************************************************************************)
(* NATSMemgraphBridge.message_handler                                      *)
(***************************************************************************)
HasLen(v) == v.k \in {"dict", "list", "str"}
PyLen(v) == CASE v.k = "dict" -> Cardinality(DOMAIN v.d)
              [] v.k = "list" -> Len(v.l)
              [] v.k = "str" -> Len(v.s)
\* is_low_value_topic: "raise" stands for the TypeError of len() on a scalar
is_low_value_topic(subject, payload) ==
    IF Len(subject) >= 2 /\ subject[1] \in LOW_VALUE_TOPICS
    THEN IF ~HasLen(payload) THEN "raise"
         ELSE IF PyLen(payload) <= 3 THEN "yes" ELSE "no"
    ELSE "no"

\* a counter that is not incremented
keep_count(counter, key) == counter
\* Counter()[key] += 1
Bump(counter, key) ==
    [x \in DOMAIN counter \cup {key} |->
        IF x = key THEN MapGet(counter, key, 0) + 1 ELSE counter[x]]

\* What one call does, before the append: raised (an exception reached the
\* except clause), counted (record_message_received ran), the tick and the
\* cache it leaves, and whether it goes on to add_to_buffer.
\* a handler without the filter and the routes: every JSON payload is appended
route_appends_all(subject, data) ==
    [raised |-> ~data.ok, counted |-> data.ok, tick |-> current_tick,
     cache |-> cache, append |-> data.ok]
HandlerRoute(subject, data) ==
    LET same == [raised |-> FALSE, counted |-> FALSE, tick |-> current_tick,
                 cache |-> cache, append |-> FALSE]
    IN
    IF ~data.ok THEN [same EXCEPT !.raised = TRUE]
    ELSE
    LET payload == data.v
        low == is_low_value_topic(subject, payload)
        counted == [same EXCEPT !.counted = TRUE]
    IN
    IF low = "raise" THEN [same EXCEPT !.raised = TRUE]
    ELSE IF low = "yes" THEN same
    ELSE IF StartsWithToken(subject, "tickperframe") THEN
        IF ~IsDict(payload) THEN [counted EXCEPT !.raised = TRUE]
        ELSE [counted EXCEPT !.tick = MapGet(payload.d, "count", JInt(0)),
                             !.append = TRUE]
    ELSE IF StartsWithTokenDot(subject, "ptzinfo") THEN
        [counted EXCEPT !.append = TRUE]
    ELSE IF StartsWithTokenDot(subject, "all_tracks") THEN
        LET r == has_changed(cache, subject, payload, TolAllTracks) IN
        [counted EXCEPT !.cache = r.cache, !.append = r.changed]
    ELSE IF StartsWithFusionBall(subject) THEN [counted EXCEPT !.append = TRUE]
    ELSE IF StartsWithToken(subject, "fused_players") THEN
        [counted EXCEPT !.append = TRUE]
    ELSE IF StartsWithIntents(subject) THEN [counted EXCEPT !.append = TRUE]
    ELSE counted

\* One delivery.  Before process_batch_loop has built the components
\* (phase "start") self.batch_processor is None and add_to_buffer raises
\* AttributeError, which the handler's except clause turns into a drop.
message_handler(subject, data) ==
    \E r \in {HandlerRoute(subject, data)} :
    LET noproc == r.append /\ phase = "start"
        raised == r.raised \/ noproc
        appends == r.append /\ ~noproc
    IN
    /\ received < MaxMsgs
    /\ current_tick' = r.tick
    /\ cache' = r.cache
    /\ metrics' =
         [total_messages_received |->
             IF r.counted THEN Bump(metrics.total_messages_received, subject)
             ELSE metrics.total_messages_received,
          dropped_messages |->
             IF raised THEN Bump(metrics.dropped_messages, subject)
             ELSE metrics.dropped_messages]
    /\ IF appends
       THEN buffer' = add_to_buffer(buffer, subject,
                                    [id |-> received + 1, data |-> data.v])
       ELSE buffer' = buffer
    /\ received' = received + 1
    /\ handled' = [subject |-> subject, data |-> data, running |-> phase = "running",
                   prev |-> MapGet(seen, subject, [ok |-> FALSE]),
                   cached |-> MapGet(cache, subject, NULL),
                   counted |-> r.counted, raised |-> raised, appended |-> appends]
    /\ seen' = [x \in DOMAIN seen \cup {subject} |->
                  IF x = subject THEN data ELSE seen[x]]
    /\ UNCHANGED <<graph, clock, last_cleanup_time, phase, scene, drained, last>>
    /\ UNCHANGED <<pool_vars, close_vars, lock_vars>>

(***************************************************************************)
(* BatchProcessor.process_batch, lines 224-249: the drain                  *)
(***************************************************************************)
\* line 236 without the min(): the whole list of a subject, whatever room is left
items_to_take_all(buffer_len, max_batch_size, items_flushed) == buffer_len
\* line 236
items_to_take(buffer_len, max_batch_size, items_flushed) ==
    Min(buffer_len, max_batch_size - items_flushed)
\* line 240 with the slice taken from the tail of the list
extracted_from_tail(items, n) == SubSeq(items, Len(items) - n + 1, Len(items))
\* line 240: buffer[:items_to_take]
extracted_data(items, n) == SubSeq(items, 1, n)
\* line 241: del buffer[:items_to_take]
remaining_data(items, n) == SubSeq(items, n + 1, Len(items))

RECURSIVE DrainFrom(_, _, _)
DrainFrom(entries, items_flushed, max_batch_size) ==
    IF entries = <<>> \/ items_flushed >= max_batch_size
    THEN [rest |-> entries, batch_data |-> <<>>, items_flushed |-> items_flushed]
    ELSE
    LET e == Head(entries)
        n == items_to_take(Len(e.items), max_batch_size, items_flushed)
        extracted == extracted_data(e.items, n)
        kept == remaining_data(e.items, n)
        r == DrainFrom(Tail(entries), items_flushed + n, max_batch_size)
    IN [rest |->
           (IF n > 0 /\ kept = <<>>
            THEN <<>>
            ELSE <<[topic |-> e.topic, items |-> kept]>>) \o r.rest,
        batch_data |->
           [i \in 1..Len(extracted) |-> [topic |-> e.topic, msg |-> extracted[i]]]
           \o r.batch_data,
        items_flushed |-> r.items_flushed]

(***************************************************************************)
(* CypherBuilder                                                           *)
(***************************************************************************)
\* ensure_properties: one entry per key of the defaults; data.get(k) when it
\* is present and not None, else the default
ensure_properties(data, defaults) ==
    [x \in DOMAIN defaults |->
        IF x \in DOMAIN data.d /\ data.d[x] # NULL THEN data.d[x] ELSE defaults[x]]

\* datetime.fromtimestamp(unix_time, tz=utc).isoformat(): whole seconds print
\* no fraction
FromTimestamp(unix_time) ==
    CASE unix_time.k = "int" -> JStr(IsoFormat(2 * unix_time.i))
      [] unix_time.k = "float" /\ unix_time.f % 500 = 0 ->
            JStr(IsoFormat(unix_time.f \div 500))

\* get_timestamp_for_entity: `"timestamp" in data` raises TypeError on a
\* scalar payload, and data["timestamp"] raises on a list that holds the word
get_timestamp_for_entity(data, system_timestamp) ==
    CASE data.k = "dict" ->
            IF "timestamp" \in DOMAIN data.d
            THEN [raised |-> FALSE, ts |-> data.d["timestamp"]]
            ELSE IF "last_updated" \in DOMAIN data.d
            THEN IF data.d["last_updated"].k \in {"int", "float"}
                 THEN [raised |-> FALSE, ts |-> FromTimestamp(data.d["last_updated"])]
                 ELSE [raised |-> TRUE, ts |-> NULL]
            ELSE [raised |-> FALSE, ts |-> system_timestamp]
      [] data.k = "list" ->
            IF \E i \in 1..Len(data.l) :
                  data.l[i] \in {JStr("timestamp"), JStr("last_updated")}
            THEN [raised |-> TRUE, ts |-> NULL]
            ELSE [raised |-> FALSE, ts |-> system_timestamp]
      [] data.k = "str" -> [raised |-> FALSE, ts |-> system_timestamp]
      [] OTHER -> [raised |-> TRUE, ts |-> NULL]

\* `a or b`
PyOr(a, b) == IF Truthy(a) THEN a ELSE b
\* what `for x in v` yields; a scalar is not iterable, a non-empty dict or
\* str yields strings, on which ensure_properties raises
IterableOfDicts(v) ==
    \/ v.k = "list" /\ \A i \in 1..Len(v.l) : IsDict(v.l[i])
    \/ v.k = "dict" /\ DOMAIN v.d = {}
    \/ v.k = "str" /\ ~Truthy(v)
Elements(v) == IF v.k = "list" THEN v.l ELSE <<>>
RECURSIVE SelectRows(_)
SelectRows(s) ==
    IF s = <<>> THEN <<>>
    ELSE (IF Head(s).keep THEN <<Head(s).row>> ELSE <<>>) \o SelectRows(Tail(s))

Row(kind, row) == [kind |-> kind, row |-> row]
NoRows(c) == [raised |-> FALSE, rows |-> <<>>, cache |-> c]
Rows(c, rows) == [raised |-> FALSE, rows |-> rows, cache |-> c]

BuildTickPerFrame(data, timestamp) ==
    <<Row("Frame", [tickID |-> MapGet(data.d, "count", JInt(0)),
                    timestamp |-> timestamp])>>

BuildPtzInfo(topic, data, tick, timestamp) ==
    LET cameraID == JStr(topic[2])
        props == ensure_properties(data, PTZ_DEFAULTS)
        ptz_row == MapUpdate([stateID |-> JFmt(topic[2], tick),
                              cameraID |-> cameraID,
                              tickID |-> tick,
                              timestamp |-> timestamp], props)
    IN <<Row("Camera", [cameraID |-> cameraID, tickID |-> tick,
                        timestamp |-> timestamp,
                        last_active_timestamp |-> timestamp]),
         Row("PTZState", ptz_row)>>

BallRows(balls, cameraID, tick, timestamp) ==
    SelectRows([i \in 1..Len(balls) |->
        LET props == ensure_properties(balls[i], BALL_DEFAULTS)
            track_id == PyOr(props["track_id"], MapGet(props, "id", NULL))
        IN [keep |-> track_id # NULL,
            row |-> Row("BallTrack",
                        MapUpdate([track_id |-> track_id, cameraID |-> cameraID,
                                   current_tick |-> tick, timestamp |-> timestamp],
                                  props))]])

PlayerRows(players, cameraID, tick, timestamp) ==
    SelectRows([i \in 1..Len(players) |->
        LET props == ensure_properties(players[i], PLAYER_DEFAULTS)
            track_id == props["track_id"]
        IN [keep |-> track_id # NULL,
            row |-> Row("PlayerTrack",
                        MapUpdate([track_id |-> track_id, cameraID |-> cameraID,
                                   current_tick |-> tick, timestamp |-> timestamp],
                                  props))]])

\* the all_tracks branch; FALSE of AllTracksOk stands for an exception that
\* the except clause turns into None
AllTracksOk(data) ==
    /\ IsDict(data)
    /\ LET ptz_data == MapGet(data.d, "PTZ", JDict(EmptyMap))
           cam_params_data == MapGet(data.d, "cam_params", JDict(EmptyMap))
       IN /\ Truthy(ptz_data) => IsDict(ptz_data)
          /\ Truthy(cam_params_data) => IsDict(cam_params_data)
    /\ IterableOfDicts(MapGet(data.d, "balls", JList(<<>>)))
    /\ IterableOfDicts(MapGet(data.d, "players", JList(<<>>)))

BuildAllTracks(topic, data, tick, timestamp) ==
    LET cameraID == JStr(topic[2])
        balls == Elements(MapGet(data.d, "balls", JList(<<>>)))
        players == Elements(MapGet(data.d, "players", JList(<<>>)))
        ptz_data == MapGet(data.d, "PTZ", JDict(EmptyMap))
        cam_params_data == MapGet(data.d, "cam_params", JDict(EmptyMap))
        PtzGet(x) == IF Truthy(ptz_data) THEN MapGet(ptz_data.d, x, NULL) ELSE NULL
        CamGet(x) == IF Truthy(cam_params_data)
                     THEN MapGet(cam_params_data.d, x, NULL) ELSE NULL
    IN <<Row("Frame", [tickID |-> tick, timestamp |-> timestamp]),
         Row("Camera", [cameraID |-> cameraID, tickID |-> tick,
                        timestamp |-> timestamp,
                        last_active_timestamp |-> timestamp])>>
       \o (IF Truthy(ptz_data)
           THEN <<Row("PTZState",
                      MapUpdate([stateID |-> JFmt(topic[2], tick),
                                 cameraID |-> cameraID, tickID |-> tick,
                                 timestamp |-> timestamp],
                                ensure_properties(ptz_data, PTZ_DEFAULTS)))>>
           ELSE <<>>)
       \o (IF Truthy(cam_params_data)
           THEN <<Row("CamParams",
                      MapUpdate([paramsID |-> JFmt(topic[2], tick),
                                 cameraID |-> cameraID, tickID |-> tick,
                                 timestamp |-> timestamp],
                                ensure_properties(cam_params_data,
                                                  CAM_PARAMS_DEFAULTS)))>>
           ELSE <<>>)
       \o (IF Truthy(ptz_data) \/ Truthy(cam_params_data)
           THEN <<Row("CameraConfigUpdate",
                      [cameraID |-> cameraID,
                       gimbal_position |->
                           JDict([pan |-> PtzGet("panposition"),
                                  tilt |-> PtzGet("tiltposition"),
                                  zoom |-> PtzGet("zoomposition")]),
                       camera_parameters |->
                           JDict([intrinsic |-> CamGet("intrinsic"),
                                  rotation |-> CamGet("rotation"),
                                  translation |-> CamGet("translation")]),
                       timestamp |-> timestamp])>>
           ELSE <<>>)
       \o BallRows(balls, cameraID, tick, timestamp)
       \o PlayerRows(players, cameraID, tick, timestamp)

BuildFusionBall(data, timestamp) ==
    <<Row("FusionBall3D",
          MapUpdate([timestamp |-> timestamp],
                    ensure_properties(data, FUSION_BALL_3D_DEFAULTS)))>>

FusedPlayerRows(players, timestamp) ==
    SelectRows([i \in 1..Len(players) |->
        LET props == ensure_properties(players[i], FUSED_PLAYER_DEFAULTS)
        IN [keep |-> props["id"] # NULL,
            row |-> Row("FusedPlayer",
                        [id |-> props["id"], x |-> props["x"], y |-> props["y"],
                         z |-> props["z"], vel_x |-> props["vel_x"],
                         vel_y |-> props["vel_y"], status |-> props["status"],
                         category |-> props["category"], team |-> props["team"],
                         timestamp |-> timestamp])]])

\* to_json_str(v) if v is not None else None
JsonOrNone(v) == IF v # NULL THEN JText(v) ELSE NULL

BuildIntent(data, timestamp) ==
    LET props == ensure_properties(data, INTENT_DEFAULTS) IN
    IF props["camera_id"] = NULL THEN <<>>
    ELSE <<Row("Intent",
               [cameraID |-> props["camera_id"], status |-> props["status"],
                intent_id |-> props["intent_id"],
                intent_type |-> props["intent_type"],
                resolved_ttl_ms |-> props["resolved_ttl_ms"],
                payload |-> JsonOrNone(props["payload"]),
                rule_definition |-> JsonOrNone(props["rule_definition"]),
                reason |-> props["reason"],
                timestamp |-> timestamp])>>

\* build_queries: the rows of one buffered payload (<<>> for None), the cache
\* after the call, and raised for an exception that leaves the function
\* (get_timestamp_for_entity is called before the try)
build_queries(c, topic, data, tick, system_timestamp) ==
    IF tick = NULL THEN NoRows(c)
    ELSE
    LET t == get_timestamp_for_entity(data, system_timestamp)
        timestamp == t.ts
    IN
    IF t.raised THEN [raised |-> TRUE, rows |-> <<>>, cache |-> c]
    ELSE IF StartsWithToken(topic, "tickperframe") THEN
        IF IsDict(data) THEN Rows(c, BuildTickPerFrame(data, timestamp))
        ELSE NoRows(c)
    ELSE IF StartsWithTokenDot(topic, "ptzinfo") THEN
        LET r == has_changed(c, topic, data, TolDefault) IN
        IF ~r.changed THEN NoRows(c)
        ELSE IF IsDict(data)
        THEN Rows(r.cache, BuildPtzInfo(topic, data, tick, timestamp))
        ELSE NoRows(r.cache)
    ELSE IF StartsWithTokenDot(topic, "all_tracks") THEN
        IF AllTracksOk(data)
        THEN Rows(c, BuildAllTracks(topic, data, tick, timestamp))
        ELSE NoRows(c)
    ELSE IF StartsWithFusionBall(topic) THEN
        IF IsDict(data) THEN Rows(c, BuildFusionBall(data, timestamp))
        ELSE NoRows(c)
    ELSE IF StartsWithToken(topic, "fused_players") THEN
        IF IsList(data) /\ \A i \in 1..Len(data.l) : IsDict(data.l[i])
        THEN Rows(c, FusedPlayerRows(data.l, timestamp))
        ELSE NoRows(c)
    ELSE IF StartsWithIntents(topic) THEN
        IF IsDict(data) THEN Rows(c, BuildIntent(data, timestamp))
        ELSE NoRows(c)
    ELSE NoRows(c)

(***************************************************************************)
(* BatchProcessor.process_batch, lines 252-268: the build loop.  Every row *)
(* keeps the number and the subject of the payload it was built from.      *)
(***************************************************************************)
RECURSIVE BuildAll(_, _, _, _)
BuildAll(batch_data, c, tick, system_timestamp) ==
    IF batch_data = <<>> THEN Rows(c, <<>>)
    ELSE
    LET b == Head(batch_data)
        r == build_queries(c, b.topic, b.msg.data, tick, system_timestamp)
    IN
    IF r.raised THEN r
    ELSE
    LET rest == BuildAll(Tail(batch_data), r.cache, tick, system_timestamp)
        tagged == [i \in 1..Len(r.rows) |->
                     [kind |-> r.rows[i].kind, row |-> r.rows[i].row,
                      src |-> b.msg.id, topic |-> b.topic]]
    IN [raised |-> rest.raised, rows |-> tagged \o rest.rows, cache |-> rest.cache]

\* batch_groups[batch_type]: the rows of one kind, in build order
RECURSIVE OfKind(_, _)
OfKind(rows, kind) ==
    IF rows = <<>> THEN <<>>
    ELSE (IF Head(rows).kind = kind THEN <<Head(rows)>> ELSE <<>>)
         \o OfKind(Tail(rows), kind)

(***************************************************************************)
(* The graph store.  A node is [id, label, props, src]: props holds the    *)
(* properties that are not null (a property set to null is removed), src   *)
(* is the number of the payload whose row created the node (0 for the      *)
(* bootstrapper).  A relationship is [type, from, to].                     *)
(***************************************************************************)
EmptyGraph == [nodes |-> {}, rels |-> {}, next |-> 1]
\* e, with the graph g computed first: TLC computes an argument where it
\* is first used, and a long chain of graph updates would otherwise be
\* computed nested, each inside the next
Having(g, e) == IF g.next > 0 THEN e ELSE e
Strip(m) == [x \in {y \in DOMAIN m : m[y] # NULL} |-> m[x]]
Get(row, x) == MapGet(row, x, NULL)
NodesOf(g, label) == {n \in g.nodes : n.label = label}
\* a MATCH that binds nothing
matching_nothing(g, label, key, val) == {}
Matching(g, label, key, val) ==
    {n.id : n \in {m \in NodesOf(g, label) :
                      key \in DOMAIN m.props /\ m.props[key] = val}}

\* CREATE (n:label {props})
CreateNode(g, label, props, src) ==
    [g |-> [g EXCEPT !.nodes = @ \cup {[id |-> g.next, label |-> label,
                                        props |-> Strip(props), src |-> src]},
                     !.next = @ + 1],
     ids |-> {g.next}]
\* MERGE that never matches: a node is created every time
merge_always_creates(g, label, key, val, src) ==
    CreateNode(g, label, [x \in {key} |-> val], src)
\* MERGE (n:label {key: val}): binds every match, creates one node if none
MergeNode(g, label, key, val, src) ==
    Having(g, IF Matching(g, label, key, val) # {}
              THEN [g |-> g, ids |-> Matching(g, label, key, val)]
              ELSE CreateNode(g, label, [x \in {key} |-> val], src))
\* SET n.x = v, ... on the bound nodes
SetProps(g, ids, updates) ==
    [g EXCEPT !.nodes =
        {IF n.id \in ids
         THEN [n EXCEPT !.props = Strip(MapUpdate(n.props, updates))]
         ELSE n : n \in g.nodes}]
\* CREATE / MERGE (a)-[:type]->(b) for the bound nodes; relationships carry
\* no properties, and CREATE is only used towards a node created by the
\* same row, so a set holds them
AddRels(g, type, froms, tos) ==
    [g EXCEPT !.rels = @ \cup {[type |-> type, from |-> a, to |-> b] :
                                a \in froms, b \in tos}]
\* MATCH (n:label) WHERE n.prop < $cutoff DETACH DELETE n
DetachDelete(g, label, prop, cutoff) ==
    LET gone == {n.id : n \in {m \in NodesOf(g, label) :
                                  /\ prop \in DOMAIN m.props
                                  /\ CypherLess(m.props[prop], cutoff)}}
    IN [g EXCEPT !.nodes = {n \in @ : n.id \notin gone},
                 !.rels = {r \in @ : r.from \notin gone /\ r.to \notin gone}]

(***************************************************************************)
(* QueryExecutor: what each per-kind statement does with one row           *)
(***************************************************************************)
processing_order ==
    <<"Frame", "Camera", "PlayerTrack", "BallTrack", "PTZState", "CamParams",
      "CameraConfigUpdate", "FusionBall3D", "FusedPlayer", "Intent">>

PlayerTrackProps(row) ==
    [x \in {"track_id", "tickID", "timestamp", "category", "world_x", "world_y",
            "confidence", "bbox", "transform_PAN", "transform_TILT", "dist",
            "ray_origin", "ray_world_space_dir", "last_updated"} |->
        CASE x = "tickID" -> Get(row, "current_tick")
          [] x = "last_updated" -> Get(row, "timestamp")
          [] OTHER -> Get(row, x)]
BallTrackProps(row) ==
    [x \in {"track_id", "tickID", "timestamp", "world_x", "world_y", "confidence",
            "bbox", "transform_PAN", "transform_TILT", "dist", "phi", "velocity",
            "velocity_x", "velocity_y", "velocity_direction", "movement_score",
            "is_best", "last_updated", "id", "id_score", "dist_score",
            "ray_origin", "ray_world_space_dir"} |->
        CASE x = "tickID" -> Get(row, "current_tick")
          [] x = "last_updated" -> Get(row, "timestamp")
          [] OTHER -> Get(row, x)]
PTZStateProps(row) ==
    [x \in {"stateID", "cameraID", "panposition", "tiltposition", "rollposition",
            "pansetpoint", "tiltsetpoint", "zoomsetpoint", "panpower",
            "tiltpower", "rollpower", "pan", "tilt", "zoomspeed", "zoomposition",
            "focusposition", "timestamp", "last_updated", "tickID"} |->
        IF x = "last_updated" THEN Get(row, "timestamp") ELSE Get(row, x)]
CamParamsProps(row) ==
    [x \in {"paramsID", "cameraID", "intrinsic", "rotation", "translation",
            "timestamp", "last_updated", "tickID"} |->
        IF x = "last_updated" THEN Get(row, "timestamp") ELSE Get(row, x)]

\* CREATE the track node, MERGE its Frame and Camera, CREATE both edges
ApplyTrack(g, label, props, row, src, camera_rel) ==
    LET n == CreateNode(g, label, props, src)
        f == MergeNode(n.g, "Frame", "tickID", Get(row, "current_tick"), src)
        g1 == AddRels(f.g, "HAS_ACTIVE_TRACK", f.ids, n.ids)
        c == MergeNode(g1, "Camera", "cameraID", Get(row, "cameraID"), src)
    IN AddRels(c.g, camera_rel, c.ids, n.ids)

\* a statement that MERGEs the state node on its stateID / paramsID and SETs
\* its properties, instead of creating it
apply_state_upsert(g, label, props, row, src, rel) ==
    LET key == IF label = "PTZState" THEN "stateID" ELSE "paramsID"
        m == MergeNode(g, label, key, Get(row, key), src)
        n == [g |-> SetProps(m.g, m.ids, props), ids |-> m.ids]
        g1 == IF Get(row, "tickID") # NULL
              THEN LET f == MergeNode(n.g, "Frame", "tickID", Get(row, "tickID"), src)
                   IN AddRels(f.g, rel, f.ids, n.ids)
              ELSE n.g
        c == MergeNode(g1, "Camera", "cameraID", Get(row, "cameraID"), src)
    IN AddRels(c.g, rel, c.ids, n.ids)
\* CREATE the state node; when row.tickID is not null MERGE its Frame and
\* CREATE the edge; MERGE the Camera and CREATE the edge
ApplyState(g, label, props, row, src, rel) ==
    LET n == CreateNode(g, label, props, src)
        g1 == IF Get(row, "tickID") # NULL
              THEN LET f == MergeNode(n.g, "Frame", "tickID", Get(row, "tickID"), src)
                   IN AddRels(f.g, rel, f.ids, n.ids)
              ELSE n.g
        c == MergeNode(g1, "Camera", "cameraID", Get(row, "cameraID"), src)
    IN AddRels(c.g, rel, c.ids, n.ids)

\* one row of the statement of its kind; r is [kind, row, src, topic]
ApplyRow(g, r) ==
    LET row == r.row
        kind == r.kind
    IN
    CASE kind = "Frame" ->
            LET m == MergeNode(g, "Frame", "tickID", Get(row, "tickID"), r.src)
            IN SetProps(m.g, m.ids, [timestamp |-> Get(row, "timestamp")])
      [] kind = "Camera" ->
            LET m == MergeNode(g, "Camera", "cameraID", Get(row, "cameraID"), r.src)
            IN SetProps(m.g, m.ids,
                        [last_active_tick |-> Get(row, "tickID"),
                         timestamp |-> Get(row, "timestamp"),
                         last_active_timestamp |-> Get(row, "last_active_timestamp")])
      [] kind = "PlayerTrack" ->
            ApplyTrack(g, "PlayerTrack", PlayerTrackProps(row), row, r.src,
                       "TRACKS_PLAYER")
      [] kind = "BallTrack" ->
            ApplyTrack(g, "BallTrack", BallTrackProps(row), row, r.src,
                       "TRACKS_BALL")
      [] kind = "PTZState" ->
            ApplyState(g, "PTZState", PTZStateProps(row), row, r.src,
                       "HAS_PTZ_STATE")
      [] kind = "CamParams" ->
            ApplyState(g, "CamParams", CamParamsProps(row), row, r.src,
                       "HAS_CAM_PARAMS")
      [] kind = "CameraConfigUpdate" ->
            LET m == MergeNode(g, "CameraConfig", "cameraID", Get(row, "cameraID"),
                               r.src)
            IN SetProps(m.g, m.ids,
                        [gimbal_position |-> JText(Get(row, "gimbal_position")),
                         camera_parameters |-> JText(Get(row, "camera_parameters")),
                         last_updated |-> Get(row, "timestamp")])
      [] kind = "FusionBall3D" ->
            LET m == MergeNode(g, "FusionBall3D", "id", JStr("singleton"), r.src)
            IN SetProps(m.g, m.ids,
                        [timestamp |-> Get(row, "timestamp"),
                         3dposition |-> Get(row, "position_world"),
                         velocity_mps |-> Get(row, "velocity_mps"),
                         status |-> Get(row, "status"),
                         fusion_method |-> Get(row, "fusion_method"),
                         kalman_filtered |-> Get(row, "kalman_filtered"),
                         smooth_2d |-> Get(row, "smooth_2d"),
                         camera_ready |-> Get(row, "camera_ready"),
                         last_updated |-> Get(row, "timestamp")])
      [] kind = "FusedPlayer" ->
            LET m == MergeNode(g, "FusedPlayer", "id", Get(row, "id"), r.src)
            IN SetProps(m.g, m.ids,
                        [x |-> Get(row, "x"), y |-> Get(row, "y"),
                         z |-> Get(row, "z"), vel_x |-> Get(row, "vel_x"),
                         vel_y |-> Get(row, "vel_y"), status |-> Get(row, "status"),
                         category |-> Get(row, "category"),
                         team |-> Get(row, "team"),
                         last_updated |-> Get(row, "timestamp")])
      [] kind = "Intent" ->
            LET m == MergeNode(g, "Intent", "cameraID", Get(row, "cameraID"), r.src)
                g1 == SetProps(m.g, m.ids,
                        [status |-> Get(row, "status"),
                         intent_id |-> Get(row, "intent_id"),
                         intent_type |-> Get(row, "intent_type"),
                         resolved_ttl_ms |-> Get(row, "resolved_ttl_ms"),
                         payload |-> Get(row, "payload"),
                         rule_definition |-> Get(row, "rule_definition"),
                         reason |-> Get(row, "reason"),
                         timestamp |-> Get(row, "timestamp")])
                cc == MergeNode(g1, "CameraConfig", "cameraID",
                                Get(row, "cameraID"), r.src)
            IN AddRels(cc.g, "HAS_INTENT", cc.ids, m.ids)

\* UNWIND $rows AS row ...
RECURSIVE ApplyRows(_, _)
ApplyRows(g, rows) ==
    IF rows = <<>> THEN g
    ELSE Having(g, ApplyRows(ApplyRow(g, Head(rows)), Tail(rows)))

\* the two follow-up statements that link to the Scene_Descriptor
ApplyLink(g, link) ==
    LET sd == {n.id : n \in NodesOf(g, "Scene_Descriptor")} IN
    IF link = "HAS_BALL"
    THEN AddRels(g, "HAS_BALL", sd,
                 Matching(g, "FusionBall3D", "id", JStr("singleton")))
    ELSE AddRels(g, "HAS_PLAYER", sd, {n.id : n \in NodesOf(g, "FusedPlayer")})

\* The database calls of one execute_queries, in the order they are made.
\* A call is [kind, rows, link, swallow]: the per-kind statement over rows,
\* or (rows empty) the link statement whose failure is swallowed.
Statement(kind, rows) ==
    [kind |-> kind, rows |-> rows, link |-> "", swallow |-> FALSE]
\* the link statement outside a try
link_unguarded(kind, link) ==
    [kind |-> kind, rows |-> <<>>, link |-> link, swallow |-> FALSE]
Link(kind, link) == [kind |-> kind, rows |-> <<>>, link |-> link, swallow |-> TRUE]
CallsOfKind(kind, rows) ==
    IF rows = <<>> THEN <<>>
    ELSE CASE kind = "CameraConfigUpdate" ->
                [i \in 1..Len(rows) |-> Statement(kind, <<rows[i]>>)]
           [] kind = "FusionBall3D" -> <<Statement(kind, rows), Link(kind, "HAS_BALL")>>
           [] kind = "FusedPlayer" -> <<Statement(kind, rows), Link(kind, "HAS_PLAYER")>>
           [] OTHER -> <<Statement(kind, rows)>>
RECURSIVE CallsFrom(_, _)
CallsFrom(order, rows) ==
    IF order = <<>> THEN <<>>
    ELSE CallsOfKind(Head(order), OfKind(rows, Head(order)))
         \o CallsFrom(Tail(order), rows)
Calls(rows) == CallsFrom(processing_order, rows)

\* the statement the database itself rejects: MERGE on a null property
Rejected(call) ==
    call.kind = "Frame" /\ \E i \in 1..Len(call.rows) :
                              Get(call.rows[i].row, "tickID") = NULL
ApplyCall(g, call) ==
    IF call.link # "" THEN ApplyLink(g, call.link) ELSE ApplyRows(g, call.rows)

\* the Frame and the Camera a row's statement MERGEs for its edges
FrameRef(r) ==
    CASE r.kind \in {"PlayerTrack", "BallTrack"} -> Get(r.row, "current_tick")
      [] r.kind \in {"PTZState", "CamParams"} -> Get(r.row, "tickID")
      [] OTHER -> NULL
CameraRef(r) ==
    IF r.kind \in {"PlayerTrack", "BallTrack", "PTZState", "CamParams"}
    THEN Get(r.row, "cameraID") ELSE NULL
\* the references of a call's rows that name no node of g
Dangling(g, call) ==
    {[kind |-> call.kind, ref |-> "Frame"] : i \in
        {j \in 1..Len(call.rows) :
            /\ FrameRef(call.rows[j]) # NULL
            /\ Matching(g, "Frame", "tickID", FrameRef(call.rows[j])) = {}}}
    \cup
    {[kind |-> call.kind, ref |-> "Camera"] : i \in
        {j \in 1..Len(call.rows) :
            /\ CameraRef(call.rows[j]) # NULL
            /\ Matching(g, "Camera", "cameraID", CameraRef(call.rows[j])) = {}}}

\* Memgraph.execute_query, lines 59-75.  answers[k] is what the database
\* answers to the k-th execution of the statement: "ok", "conflict" (an
\* error whose text holds 'conflicting transactions') or "error" (any
\* other).  attempts counts the executions, slept the retry delays.
query_max_retries == 1
RECURSIVE execute_query_attempt(_, _)
execute_query_attempt(attempt, answers) ==
    IF attempt >= query_max_retries
    THEN [raised |-> FALSE, attempts |-> attempt, slept |-> attempt]
    ELSE IF answers[attempt + 1] = "ok"
    THEN [raised |-> FALSE, attempts |-> attempt + 1, slept |-> attempt]
    ELSE IF answers[attempt + 1] = "conflict" /\ attempt < query_max_retries - 1
    THEN execute_query_attempt(attempt + 1, answers)
    ELSE [raised |-> TRUE, attempts |-> attempt + 1, slept |-> attempt]
execute_query(answers) == execute_query_attempt(0, answers)
NoQuery == [raised |-> FALSE, attempts |-> 0, slept |-> 0]
\* a statement the database refuses with an error that is not a conflict,
\* whatever a second execution would be answered
OtherError == <<"error", "error">>
\* the database's possible answers to a statement it refuses at first
QueryAnswers ==
    {<<"conflict", b>> : b \in {"ok", "conflict", "error"}} \cup {OtherError}

\* execute_queries: every call is one autocommitted statement; fails is the
\* set of positions at which execute_query raises.  A failed statement
\* changes nothing; unless swallowed it ends the function with the error.
\* The result also reports the kinds of the calls in the order they were
\* issued, and the references that were dangling when a statement ran.
RECURSIVE RunCalls(_, _, _, _)
RunCalls(g, calls, i, fails) ==
    Having(g,
    IF i > Len(calls)
    THEN [g |-> g, raised |-> FALSE, done |-> Len(calls), issued |-> <<>>,
          dangling |-> {}]
    ELSE IF i \in fails \/ Rejected(calls[i])
    THEN IF calls[i].swallow
         THEN LET r == RunCalls(g, calls, i + 1, fails)
              IN [r EXCEPT !.issued = <<calls[i].kind>> \o @]
         ELSE [g |-> g, raised |-> TRUE, done |-> i - 1,
               issued |-> <<calls[i].kind>>, dangling |-> {}]
    ELSE LET r == RunCalls(ApplyCall(g, calls[i]), calls, i + 1, fails)
         IN [r EXCEPT !.issued = <<calls[i].kind>> \o @,
                      !.dangling = @ \cup Dangling(g, calls[i])])
execute_queries(g, rows, fails) == RunCalls(g, Calls(rows), 1, fails)

(***************************************************************************)
(* CleanupManager.cleanup_old_data_by_time                                 *)
(***************************************************************************)
\* the list with a statement for FusedPlayer added
cleanup_with_fused_players ==
    <<[label |-> "PlayerTrack", prop |-> "last_updated"],
      [label |-> "BallTrack", prop |-> "last_updated"],
      [label |-> "PTZState", prop |-> "timestamp"],
      [label |-> "CamParams", prop |-> "timestamp"],
      [label |-> "Frame", prop |-> "timestamp"],
      [label |-> "Camera", prop |-> "last_active_timestamp"],
      [label |-> "FusedPlayer", prop |-> "last_updated"]>>
cleanup_statements ==
    <<[label |-> "PlayerTrack", prop |-> "last_updated"],
      [label |-> "BallTrack", prop |-> "last_updated"],
      [label |-> "PTZState", prop |-> "timestamp"],
      [label |-> "CamParams", prop |-> "timestamp"],
      [label |-> "Frame", prop |-> "timestamp"],
      [label |-> "Camera", prop |-> "last_active_timestamp"]>>

\* a sweep that goes on with the next statement after a failed one
RECURSIVE run_cleanup_skipping(_, _, _, _)
run_cleanup_skipping(g, cutoff_timestamp, i, stop) ==
    IF i > Len(cleanup_statements) THEN g
    ELSE IF i = stop THEN run_cleanup_skipping(g, cutoff_timestamp, i + 1, stop)
    ELSE Having(g,
         run_cleanup_skipping(DetachDelete(g, cleanup_statements[i].label,
                                           cleanup_statements[i].prop,
                                           cutoff_timestamp),
                              cutoff_timestamp, i + 1, stop))
\* the statements run in order; the one at position stop (0: none) fails or
\* times out, deletes nothing, and ends the sweep
RECURSIVE RunCleanup(_, _, _, _)
RunCleanup(g, cutoff_timestamp, i, stop) ==
    IF i > Len(cleanup_statements) \/ i = stop THEN g
    ELSE Having(g,
         RunCleanup(DetachDelete(g, cleanup_statements[i].label,
                                 cleanup_statements[i].prop, cutoff_timestamp),
                    cutoff_timestamp, i + 1, stop))
\* The passes of `for attempt in range(max_retries)`, lines 39-114.  A
\* statement's error or timeout is caught next to the statement (lines
\* 79-84, break), the Scene_Descriptor count has its own try, and the pass
\* then returns (line 103); the except clause of the pass, which sleeps
\* base_delay * 2^attempt and continues on a conflict, is reached by no
\* statement.
cleanup_max_retries == 3
cleanup_passes(attempt) ==
    IF attempt >= cleanup_max_retries THEN attempt ELSE attempt + 1
\* cutoff_time = current_time - rolling_window_seconds, as isoformat() text
cleanup_old_data_by_time(g, now, stop) ==
    RunCleanup(g, JStr(IsoFormat(now - RollingWindow)), 1, stop)

(***************************************************************************)
(* SceneInitializer.initialize_all: one statement for the Scene_Descriptor *)
(* and one per camera of get_camera_configs(); the first failure ends it   *)
(* and is swallowed.                                                       *)
(***************************************************************************)
camera_configs == <<"camera1", "camera2", "camera3", "camera4", "camera5", "camera6">>
venue_id == JStr("ozsports")

initialize_scene_descriptor(g) ==
    LET m == MergeNode(g, "Scene_Descriptor", "venue_id", venue_id, 0)
    IN SetProps(m.g, m.ids, [units |-> JStr("meters"), up_axis |-> JStr("Z"),
                             version |-> JStr("1.0")])
initialize_camera_config(g, camera_id) ==
    LET m == MergeNode(g, "CameraConfig", "cameraID", JStr(camera_id), 0)
        g1 == SetProps(m.g, m.ids,
                       [venue |-> venue_id, status |-> JStr("ACTIVE"),
                        gimbal_position |-> JText(JDict(EmptyMap)),
                        camera_parameters |-> JText(JDict(EmptyMap))])
    IN AddRels(g1, "HAS_CAMERA",
               Matching(g1, "Scene_Descriptor", "venue_id", venue_id), m.ids)
RECURSIVE initialize_camera_configs(_, _, _)
initialize_camera_configs(g, i, n) ==
    IF i > n THEN g
    ELSE Having(g,
         initialize_camera_configs(initialize_camera_config(g, camera_configs[i]),
                                   i + 1, n))
BootstrapCalls == 1 + Len(camera_configs)
\* bootstrap that stops after the Scene_Descriptor
initialize_scene_only(g, done) ==
    IF done = 0 THEN g ELSE initialize_scene_descriptor(g)
\* done: how many statements succeed
initialize_all(g, done) ==
    IF done = 0 THEN g
    ELSE initialize_camera_configs(initialize_scene_descriptor(g), 1, done - 1)

(***************************************************************************)
(* BatchProcessor.process_batch as one call: heartbeat, drain, build,      *)
(* write.  raised: an exception left the call.                             *)
(***************************************************************************)
Numeric(t) == t.k \in {"int", "float", "bool"}
\* a test for None, as the row builder makes
tick_is_none(t) == t.k = "null"
\* current_tick == 0
TickIsZero(t) ==
    \/ t.k = "int" /\ t.i = 0
    \/ t.k = "float" /\ t.f = 0
    \/ t.k = "bool" /\ ~t.b
\* current_tick % 1000 == 0
TickOnHeartbeat(t) ==
    CASE t.k = "int" -> t.i % HeartbeatTicks = 0
      [] t.k = "float" -> t.f % (HeartbeatTicks * 1000) = 0
      [] t.k = "bool" -> ~t.b

NoWrite(g) == [g |-> g, raised |-> FALSE, done |-> 0, issued |-> <<>>,
               dangling |-> {}]
process_batch(buf, c, g, tick, now, fails) ==
    LET idle == [buffer |-> buf, cache |-> c, batch_data |-> <<>>, rows |-> <<>>,
                 items_flushed |-> 0, heartbeat_raised |-> FALSE,
                 build_raised |-> FALSE, write |-> NoWrite(g)]
    IN
    \* line 217: logger is not a name of this module
    IF TickOnHeartbeat(tick) THEN [idle EXCEPT !.heartbeat_raised = TRUE]
    ELSE IF buf = <<>> THEN idle
    ELSE
    LET d == DrainFrom(buf, 0, MaxBatch)
        b == BuildAll(d.batch_data, c, tick, JStr(IsoFormat(now)))
        drainedOnly == [idle EXCEPT !.buffer = d.rest, !.cache = b.cache,
                                    !.batch_data = d.batch_data,
                                    !.items_flushed = d.items_flushed]
    IN
    IF b.raised THEN [drainedOnly EXCEPT !.build_raised = TRUE]
    ELSE IF d.items_flushed > 0
    THEN [drainedOnly EXCEPT !.rows = b.rows,
                             !.write = execute_queries(g, b.rows, fails)]
    ELSE drainedOnly

FailSets(rows, maxFail) ==
    {F \in SUBSET (1..Len(Calls(rows))) : Cardinality(F) <= maxFail}
RECURSIVE Record(_, _)
Record(dr, batch_data) ==
    IF batch_data = <<>> THEN dr
    ELSE LET b == Head(batch_data)
             dr1 == [x \in DOMAIN dr \cup {b.topic} |->
                        IF x = b.topic
                        THEN Append(MapGet(dr, b.topic, <<>>), b.msg.id)
                        ELSE dr[x]]
         IN Record(dr1, Tail(batch_data))

NoBatch ==
    [op |-> "none", tick |-> NULL, batch_data |-> <<>>, rows |-> <<>>,
     items_flushed |-> 0, heartbeat_raised |-> FALSE, build_raised |-> FALSE,
     write_raised |-> FALSE, issued |-> <<>>, dangling |-> {}, done |-> 0,
     start |-> EmptyGraph, swept |-> FALSE, cutoff |-> NULL, stop |-> 0,
     before |-> EmptyGraph, answers |-> <<>>, query |-> NoQuery, passes |-> 0]

(***************************************************************************)
(* NATSMemgraphBridge.process_batch_loop                                   *)
(***************************************************************************)
\* the test without the time of the previous sweep
sweep_due_since_start(current_time, last_cleanup) ==
    current_time >= CleanupInterval
\* line 229: current_time >= last_cleanup_time + cleanup_interval_seconds
sweep_due(current_time, last_cleanup) ==
    current_time >= last_cleanup + CleanupInterval
\* a while loop that never looks at the flag
loop_test_blind == "running"
\* `while not self._shutdown_requested`, line 191: where the loop is after
\* the test, asleep in line 192 or left
loop_test == IF shutdown_requested THEN "stopped" ELSE "running"
\* a startup check that finds nothing, whatever the graph holds
startup_check_blind(g, answer) == FALSE
\* _initialize_usd_scene, lines 93-113: the value it leaves in
\* _scene_initialized.  answer: "ok" when the count query answers, "error"
\* when it raises.
_initialize_usd_scene(g, answer) ==
    answer = "ok" /\ NodesOf(g, "Scene_Descriptor") # {}
\* Lines 173-189: build the components, check for a scene, bootstrap it,
\* note the time, test the flag.  outcomes: the numbers of bootstrap
\* statements that may succeed; answers: what the count query may do.
startup(outcomes, answers) ==
    /\ phase = "start"
    /\ \E done \in outcomes, answer \in answers :
       \E found \in {_initialize_usd_scene(graph, answer)} :
          /\ graph' = IF found THEN graph ELSE initialize_all(graph, done)
          /\ scene' = [initialized |-> TRUE,
                       complete |-> NodesOf(graph, "Scene_Descriptor") = {}
                                    /\ done = BootstrapCalls,
                       found |-> found,
                       check |-> answer,
                       runs |-> IF found THEN scene.runs ELSE scene.runs + 1]
    /\ phase' = loop_test
    /\ last_cleanup_time' = clock
    /\ UNCHANGED <<buffer, cache, current_tick, metrics, clock, received,
                   drained, last, handled, seen>>
    /\ UNCHANGED <<pool_vars, close_vars, lock_vars>>
process_batch_loop_start(outcomes) == startup(outcomes, {"ok"})

\* One iteration of the while loop, lines 192-277.  Nothing in it waits on
\* anything but the database, so no handler runs inside it.  maxFail bounds
\* the statements the database fails in one execute_queries; stops are the
\* positions at which the sweep may fail (0: nowhere), answerSets what the
\* database may answer to a statement it refuses: the statement fails for
\* its caller when execute_query raises.
batch_iteration(at, maxFail, stops, answerSets) ==
    /\ phase = at
    /\ UNCHANGED <<pool_vars, close_vars, lock_vars>>
    /\ IF TickIsZero(current_tick)
       THEN \* lines 195-196: continue
            /\ phase' = loop_test
            /\ last' = [NoBatch EXCEPT !.op = "skip", !.tick = current_tick]
            /\ UNCHANGED <<buffer, cache, current_tick, metrics, graph, clock,
                           last_cleanup_time, scene, received, drained,
                           handled, seen>>
       ELSE IF ~Numeric(current_tick)
       THEN \* line 199, outside the try: the TypeError ends the task
            /\ phase' = "dead"
            /\ UNCHANGED <<buffer, cache, current_tick, metrics, graph, clock,
                           last_cleanup_time, scene, received, drained, last,
                           handled, seen>>
       ELSE
       \E built \in {process_batch(buffer, cache, graph, current_tick, clock, {})} :
       \E refused \in FailSets(built.rows, maxFail),
          refusedAt \in (IF sweep_due(clock, last_cleanup_time)
                         THEN stops ELSE {0}) :
       \E answers \in (IF refused = {} /\ refusedAt = 0 THEN {<<>>}
                       ELSE answerSets) :
       \E q \in {IF answers = <<>> THEN NoQuery ELSE execute_query(answers)} :
       \E fails \in {IF q.raised THEN refused ELSE {}},
          stop \in {IF q.raised THEN refusedAt ELSE 0} :
       \E pb \in {IF fails = {} THEN built
                  ELSE process_batch(buffer, cache, graph, current_tick, clock,
                                     fails)} :
          LET tick == current_tick
              raised == pb.heartbeat_raised \/ pb.build_raised \/ pb.write.raised
              sweeps == ~raised /\ sweep_due(clock, last_cleanup_time)
          IN
          /\ buffer' = pb.buffer
          /\ cache' = pb.cache
          /\ drained' = Record(drained, pb.batch_data)
          /\ graph' = IF sweeps
                      THEN cleanup_old_data_by_time(pb.write.g, clock, stop)
                      ELSE pb.write.g
          /\ last_cleanup_time' = IF sweeps THEN clock ELSE last_cleanup_time
          /\ last' = [op |-> "batch", tick |-> tick,
                      batch_data |-> pb.batch_data, rows |-> pb.rows,
                      items_flushed |-> pb.items_flushed,
                      heartbeat_raised |-> pb.heartbeat_raised,
                      build_raised |-> pb.build_raised,
                      write_raised |-> pb.write.raised,
                      issued |-> pb.write.issued,
                      dangling |-> pb.write.dangling,
                      done |-> pb.write.done,
                      start |-> graph,
                      swept |-> sweeps,
                      cutoff |-> IF sweeps
                                 THEN JStr(IsoFormat(clock - RollingWindow))
                                 ELSE NULL,
                      stop |-> IF sweeps THEN stop ELSE 0,
                      before |-> IF sweeps THEN pb.write.g ELSE EmptyGraph,
                      answers |-> answers,
                      query |-> q,
                      passes |-> IF sweeps THEN cleanup_passes(0) ELSE 0]
          /\ phase' = loop_test
          /\ UNCHANGED <<current_tick, metrics, clock, scene, received,
                         handled, seen>>
process_batch_loop(maxFail, stops) ==
    batch_iteration("running", maxFail, stops, {OtherError})
\* the same with every answer of the database to a refused statement
process_batch_loop_answered(maxFail, stops) ==
    batch_iteration("running", maxFail, stops, QueryAnswers)

(***************************************************************************)
(* NATSMemgraphBridge.close, lines 309-355.  It is called by the task the  *)
(* signal handler creates, by __aexit__ when run() has returned or raised, *)
(* and by the finally clause of main (memgraph_skg.py 90-108).  A call     *)
(* suspends in the sleep of line 319 and in nc.close(); everything else    *)
(* runs without another task in between.                                   *)
(***************************************************************************)
Logged(c, step) == [call |-> c, step |-> step]
\* the last two steps exchanged
shutdown_tail_metrics_first(c) == <<Logged(c, "metrics"), Logged(c, "cache")>>
\* lines 339-348: clear the cache, then read the metrics
shutdown_tail(c) == <<Logged(c, "cache"), Logged(c, "metrics")>>
\* lines 313-319: set the flag, sleep two batch intervals
close_begin(c) ==
    /\ close_pc[c] = "none"
    /\ phase # "writing"
    /\ CASE c = "signal" -> TRUE
         [] c = "aexit" -> phase \in {"stopped", "dead"}
         [] c = "finally" -> close_pc["aexit"] \in {"done", "failed"}
    /\ shutdown_requested' = TRUE
    /\ close_pc' = [close_pc EXCEPT ![c] = "sleeping"]
    /\ shutdown_log' = Append(shutdown_log, Logged(c, "flag"))
    /\ UNCHANGED <<buffer, cache, current_tick, metrics, graph, clock,
                   last_cleanup_time, phase, scene, received, drained, last,
                   handled, seen, pool_vars, nc_closed, lock_vars>>
\* lines 329-348: process what the buffer holds, clear the cache, read the
\* metrics.  An exception leaves for the except clause of line 352.
close_rest(c, maxFail) ==
    \E drains \in {phase # "start" /\ get_buffer_size(buffer) > 0} :
    \E runs \in {drains /\ Numeric(current_tick)} :
    \E built \in {[process_batch(IF runs THEN buffer ELSE <<>>, cache, graph,
                                 IF runs THEN current_tick ELSE JInt(1),
                                 clock, {})
                     EXCEPT !.buffer = IF runs THEN @ ELSE buffer,
                            !.heartbeat_raised = IF runs THEN @ ELSE drains]} :
    \E fails \in FailSets(built.rows, maxFail) :
    \E pb \in {IF fails = {} THEN built
               ELSE process_batch(buffer, cache, graph, current_tick, clock,
                                  fails)} :
    \E raised \in {pb.heartbeat_raised \/ pb.build_raised \/ pb.write.raised} :
       /\ buffer' = pb.buffer
       /\ drained' = Record(drained, pb.batch_data)
       /\ graph' = pb.write.g
       /\ cache' = IF raised THEN pb.cache ELSE EmptyMap
       /\ last' = IF drains
                  THEN [NoBatch EXCEPT !.op = "close", !.tick = current_tick,
                                       !.batch_data = pb.batch_data,
                                       !.rows = pb.rows,
                                       !.items_flushed = pb.items_flushed,
                                       !.heartbeat_raised = pb.heartbeat_raised,
                                       !.build_raised = pb.build_raised,
                                       !.write_raised = pb.write.raised,
                                       !.issued = pb.write.issued,
                                       !.dangling = pb.write.dangling,
                                       !.done = pb.write.done,
                                       !.start = graph]
                  ELSE last
       /\ shutdown_log' =
             shutdown_log \o (IF drains THEN <<Logged(c, "drain")>> ELSE <<>>)
                          \o (IF raised THEN <<>> ELSE shutdown_tail(c))
       /\ close_pc' = [close_pc EXCEPT ![c] = IF raised THEN "failed" ELSE "done"]
\* lines 321-348, the call resumed: after the sleep it closes the broker
\* connection when that is open, and nc.close() suspends, answers or
\* raises; when the connection is closed already, and when nc.close() has
\* returned, the call goes on to the rest without suspending.
close_resume(c, answers, maxFail) ==
    /\ close_pc[c] \in {"sleeping", "closing"}
    /\ phase # "writing"
    /\ IF close_pc[c] = "sleeping" /\ ~nc_closed
       THEN \E answer \in answers :
            /\ nc_closed' = TRUE
            /\ shutdown_log' = Append(shutdown_log, Logged(c, "broker"))
            /\ close_pc' = [close_pc EXCEPT ![c] =
                               IF answer = "ok" THEN "closing" ELSE "failed"]
            /\ UNCHANGED <<buffer, cache, graph, drained, last>>
       ELSE /\ close_rest(c, maxFail)
            /\ UNCHANGED nc_closed
    /\ UNCHANGED <<current_tick, metrics, clock, last_cleanup_time, phase,
                   scene, received, handled, seen, pool_vars,
                   shutdown_requested, lock_vars>>
\* the broker client calls the handler while its connection is open
deliver_open(subject, data) ==
    /\ ~nc_closed
    /\ phase # "writing"
    /\ message_handler(subject, data)

\* time passes
Advance ==
    /\ clock < MaxClock
    /\ clock' = clock + 1
    /\ UNCHANGED <<buffer, cache, current_tick, metrics, graph,
                   last_cleanup_time, phase, scene, received, drained, last,
                   handled, seen>>
    /\ UNCHANGED <<pool_vars, close_vars, lock_vars>>

NoDelivery ==
    [subject |-> <<>>, data |-> [ok |-> FALSE], running |-> FALSE,
     prev |-> [ok |-> FALSE], cached |-> NULL, counted |-> FALSE,
     raised |-> FALSE, appended |-> FALSE]

\* the calls of close(): the task of the signal handler, __aexit__ of
\* `async with bridge`, and the finally clause of main
CloseCalls == <<"signal", "aexit", "finally">>
\* _connect_with_retry, lines 49-57: the pool after `opened` connections
\* were opened
pool_of(opened) == [i \in 1..opened |-> i]

\* the connections: the primary one and those opened for the pool
primary == 0
Pooled == 1..pool_size
\* the users of the pool
Callers == {"a", "b", "c"}
NotHolding == [pc |-> "idle", conn |-> primary, raised |-> FALSE]

(***************************************************************************)
(* Memgraph: the connection pool.  The list is popped and appended at its  *)
(* end, under pool_lock.                                                   *)
(***************************************************************************)
\* a return that appends whatever it is handed
pool_after_any_return(pool, conn) == Append(pool, conn)
\* return_pooled_connection, lines 88-91: the pool after conn is handed back
pool_after_return(pool, conn) ==
    IF conn # primary /\ Len(pool) < pool_size THEN Append(pool, conn)
    ELSE pool
\* get_pooled_connection, lines 79-84: the connection handed out and the
\* pool it leaves
pool_get(pool) ==
    IF pool # <<>>
    THEN [conn |-> pool[Len(pool)], pool |-> SubSeq(pool, 1, Len(pool) - 1)]
    ELSE [conn |-> primary, pool |-> pool]
UnchangedBridge ==
    UNCHANGED <<buffer, cache, current_tick, metrics, graph, clock,
                last_cleanup_time, phase, scene, received, drained, last,
                handled, seen, close_vars, lock_vars>>
\* caller t calls get_pooled_connection
get_pooled_connection(t) ==
    /\ held[t].pc = "idle"
    /\ \E r \in {pool_get(connection_pool)} :
          /\ connection_pool' = r.pool
          /\ held' = [held EXCEPT ![t] = [pc |-> "held", conn |-> r.conn,
                                         raised |-> FALSE]]
    /\ UnchangedBridge
\* caller t hands back the connection it got
return_pooled_connection(t) ==
    /\ held[t].pc = "held"
    /\ connection_pool' = pool_after_return(connection_pool, held[t].conn)
    /\ held' = [held EXCEPT ![t] = NotHolding]
    /\ UnchangedBridge
\* execute_query_pooled, lines 95-99: caller t has its connection and runs
\* the query on it, which answers or raises
execute_query_pooled_called(t) ==
    /\ held[t].pc = "idle"
    /\ \E r \in {pool_get(connection_pool)}, raises \in BOOLEAN :
          /\ connection_pool' = r.pool
          /\ held' = [held EXCEPT ![t] = [pc |-> "executing", conn |-> r.conn,
                                         raised |-> raises]]
    /\ UnchangedBridge
\* lines 100-101: the finally clause hands the connection back
execute_query_pooled_returned(t) ==
    /\ held[t].pc = "executing"
    /\ connection_pool' = pool_after_return(connection_pool, held[t].conn)
    /\ held' = [held EXCEPT ![t] = [NotHolding EXCEPT !.raised = held[t].raised]]
    /\ UnchangedBridge

\* the state after NATSMemgraphBridge.__init__, the process starting at one
\* of the instants of starts with one of the graphs an earlier run left and
\* `opened` pooled connections
\* the tasks that use the buffer: two message callbacks, the batch loop,
\* and a caller of process_all_batches
Tasks == {"h1", "h2", "loop", "flush"}
LockTopics == {<<"tickperframe">>, <<"fused_players">>}
\* "" for a lock nobody holds
FreeLocks == [global |-> "", topics |-> [t \in LockTopics |-> ""]]
IdleTask == [op |-> "", pc |-> "idle", topics |-> <<>>, item |-> NULL,
             batch_data |-> <<>>, items_flushed |-> 0, topic_items |-> 0]
InitWith(starts, graphs, opened) ==
    /\ buffer = <<>>
    /\ cache = EmptyMap
    /\ current_tick = JInt(0)
    /\ metrics = [total_messages_received |-> EmptyMap,
                  dropped_messages |-> EmptyMap]
    /\ graph \in graphs
    /\ clock \in starts
    /\ last_cleanup_time = 0
    /\ phase = "start"
    /\ scene = [initialized |-> FALSE, complete |-> FALSE, found |-> FALSE,
                check |-> "none", runs |-> 0]
    /\ received = 0
    /\ drained = EmptyMap
    /\ last = NoBatch
    /\ handled = NoDelivery
    /\ seen = EmptyMap
    /\ \E n \in opened : connection_pool = pool_of(n)
    /\ held = [t \in Callers |-> NotHolding]
    /\ shutdown_requested = FALSE
    /\ nc_closed = FALSE
    /\ close_pc = [c \in {CloseCalls[i] : i \in 1..Len(CloseCalls)} |-> "none"]
    /\ shutdown_log = <<>>
    /\ locks = FreeLocks
    /\ tasks = [t \in Tasks |-> IdleTask]
InitAt(starts) == InitWith(starts, {EmptyGraph}, {pool_size})

\* a delivery the broker may make
Msg(subject, v) == [subject |-> subject, data |-> [ok |-> TRUE, v |-> v]]
Garbled(subject) == [subject |-> subject, data |-> [ok |-> FALSE]]
\* tickperframe {"count": n}
TickMsg(n) == Msg(<<"tickperframe">>, JDict([count |-> JInt(n)]))

(***************************************************************************)
(* The buffer and its drain: deliveries on three subjects, a healthy       *)
(* database.                                                               *)
(***************************************************************************)
\* all_tracks.<camera> with one player whose track_id is n
PlayerMsg(camera, n) ==
    Msg(<<"all_tracks", camera>>,
        JDict([players |-> JList(<<JDict([track_id |-> JInt(n)])>>)]))
PtzMsg(camera, pan) ==
    Msg(<<"ptzinfo", camera>>, JDict([panposition |-> JFloat(pan)]))

MsgsBuffer ==
    {TickMsg(1), PlayerMsg("camera1", 1), PlayerMsg("camera1", 2),
     PtzMsg("camera2", 1000)}
InitBuffer == InitAt({RollingWindow})
NextBuffer ==
    \/ \E m \in MsgsBuffer : message_handler(m.subject, m.data)
    \/ process_batch_loop_start({BootstrapCalls})
    \/ process_batch_loop(0, {0})
    \/ Advance
SpecBuffer == InitBuffer /\ [][NextBuffer]_vars

Ids(items) == [i \in 1..Len(items) |-> items[i].id]
Increasing(s) == \A i, j \in 1..Len(s) : i < j => s[i] < s[j]
Topics == {buffer[i].topic : i \in 1..Len(buffer)} \cup DOMAIN drained
RowKinds == {processing_order[i] : i \in 1..Len(processing_order)}
RECURSIVE SrcOf(_, _, _)
SrcOf(rows, kind, topic) ==
    IF rows = <<>> THEN <<>>
    ELSE (IF Head(rows).kind = kind /\ Head(rows).topic = topic
          THEN <<Head(rows).src>> ELSE <<>>) \o SrcOf(Tail(rows), kind, topic)

\* C1: for every subject the payloads leave the buffer in receipt order over
\* all drains (what was drained so far, followed by what is still buffered,
\* is in receipt order), and in the rows of one drain the rows of one kind
\* that come from one subject are in the receipt order of their payloads.
C1_FifoDrain ==
    /\ \A t \in Topics :
          Increasing(MapGet(drained, t, <<>>) \o Ids(BufferItems(buffer, t)))
    /\ \A t \in Topics, kind \in RowKinds :
          \A i, j \in 1..Len(SrcOf(last.rows, kind, t)) :
             i < j => SrcOf(last.rows, kind, t)[i] <= SrcOf(last.rows, kind, t)[j]
\* a subject drained in two calls, the first of which took two payloads of it
C1_Witness ==
    \E t \in DOMAIN drained :
       /\ Len(drained[t]) >= 3
       /\ last.items_flushed = 1
       /\ last.batch_data[1].topic = t

\* C2: one process_batch call takes at most max_batch_size payloads out of
\* the buffer (the bound is on payloads, not on the rows built from them).
C2_DrainBound ==
    /\ last.items_flushed <= MaxBatch
    /\ Len(last.batch_data) = last.items_flushed
\* the statement as made: at most max_batch_size rows reach the writer
C2_RowBound == Len(last.rows) <= MaxBatch
\* the bound was binding and the rows outnumber it
C2_Witness ==
    /\ last.items_flushed = MaxBatch
    /\ buffer # <<>>
    /\ Len(last.rows) > MaxBatch

(***************************************************************************)
(* The change gate of all_tracks: payloads of one camera that differ in    *)
(* one float field by multiples of the tolerance.                          *)
(***************************************************************************)
\* all_tracks.<camera> with one ball at world_x = x thousandths
BallAtMsg(camera, x) ==
    Msg(<<"all_tracks", camera>>,
        JDict([balls |-> JList(<<JDict([world_x |-> JFloat(x)])>>)]))
WorldX(payload) == payload.d["balls"].l[1].d["world_x"].f

MsgsCache ==
    {TickMsg(1), BallAtMsg("camera1", 0), BallAtMsg("camera1", 1),
     BallAtMsg("camera1", 2)}
InitCache == InitAt({RollingWindow})
NextCache ==
    \/ \E m \in MsgsCache : message_handler(m.subject, m.data)
    \/ process_batch_loop_start({BootstrapCalls})
    \/ process_batch_loop(0, {0})
    \/ Advance
SpecCache == InitCache /\ [][NextCache]_vars

GatedDelivery ==
    /\ StartsWithTokenDot(handled.subject, "all_tracks")
    /\ handled.data.ok
    /\ handled.running

MaxFail == 1

\* all_tracks.<camera> with a player, a ball, PTZ data that carries its own
\* tickID, and camera parameters
FullTracksMsg(camera, ptzTick) ==
    Msg(<<"all_tracks", camera>>,
        JDict([players |-> JList(<<JDict([track_id |-> JInt(1)])>>),
               balls |-> JList(<<JDict([track_id |-> JInt(1)])>>),
               PTZ |-> JDict([panposition |-> JFloat(1000),
                              tickID |-> JInt(ptzTick)]),
               cam_params |-> JDict([intrinsic |-> JStr("K")])]))
FusionBallMsg(status) ==
    Msg(<<"fusion", "ball_3d">>,
        JDict([status |-> JStr(status), timestamp |-> JStr(IsoFormat(0))]))
FusedPlayersMsg(id) ==
    Msg(<<"fused_players">>, JList(<<JDict([id |-> JInt(id)])>>))
IntentMsg(camera, status) ==
    Msg(<<"intents", "processed">>,
        JDict([camera_id |-> JStr(camera), status |-> JStr(status)]))

MsgsWrite ==
    {TickMsg(1), FullTracksMsg("camera1", 2), PtzMsg("camera2", 1000),
     FusionBallMsg("tracked"), FusedPlayersMsg(7), IntentMsg("camera1", "active")}
InitWrite == InitAt({RollingWindow})
NextWrite ==
    \/ \E m \in MsgsWrite : message_handler(m.subject, m.data)
    \/ process_batch_loop_start({BootstrapCalls})
    \/ process_batch_loop(MaxFail, {0})
    \/ Advance
SpecWrite == InitWrite /\ [][NextWrite]_vars

\* the order of kinds as the statement gives it
C4_Order ==
    <<"Frame", "Camera", "PlayerTrack", "BallTrack", "PTZState", "CamParams",
      "CameraConfigUpdate", "FusionBall3D", "FusedPlayer", "Intent">>
C4_Rank(kind) == CHOOSE i \in 1..Len(C4_Order) : C4_Order[i] = kind

\* the half of C4 the writer keeps: the statements of one execute_queries
\* are issued in the fixed order, and the only reference that names no node
\* when its statement runs is the Frame of a PTZState or CamParams row
OrderedWrites ==
    /\ \A i, j \in 1..Len(last.issued) :
          i < j => C4_Rank(last.issued[i]) <= C4_Rank(last.issued[j])
    /\ \A d \in last.dangling :
          d.ref = "Frame" /\ d.kind \in {"PTZState", "CamParams"}
\* C4: the statements of one execute_queries are issued in the order Frame,
\* Camera, PlayerTrack, BallTrack, PTZState, CamParams, CameraConfigUpdate,
\* FusionBall3D, FusedPlayer, Intent, and when a statement runs every Frame
\* and every Camera its rows reference is already in the graph.
C4_ReferencesExist ==
    /\ \A i, j \in 1..Len(last.issued) :
          i < j => C4_Rank(last.issued[i]) <= C4_Rank(last.issued[j])
    /\ last.dangling = {}

BatchIds == {last.batch_data[i].msg.id : i \in 1..Len(last.batch_data)}
\* C5: after a batch one of whose statements failed, the graph holds no node
\* created by a row of that batch
C5_NoPartialWrite ==
    last.write_raised => \A n \in graph.nodes : n.src \notin BatchIds

(***************************************************************************)
(* Track detections: all_tracks payloads of one camera with players and    *)
(* balls, a healthy database.                                              *)
(***************************************************************************)
\* all_tracks.<camera> with the given player and ball objects
TracksMsg(camera, players, balls) ==
    Msg(<<"all_tracks", camera>>,
        JDict([players |-> JList(players), balls |-> JList(balls)]))
Player(n) == JDict([track_id |-> JInt(n)])
Ball(n) == JDict([track_id |-> JInt(n)])

MsgsTracks ==
    {TickMsg(1), TickMsg(2),
     TracksMsg("camera1", <<Player(1)>>, <<Ball(1)>>),
     TracksMsg("camera1", <<Player(1), Player(2)>>, <<Ball(0)>>),
     TracksMsg("camera2", <<Player(3)>>, <<Ball(2), Ball(3)>>)}
InitTracks == InitAt({RollingWindow})
NextTracks ==
    \/ \E m \in MsgsTracks : message_handler(m.subject, m.data)
    \/ process_batch_loop_start({BootstrapCalls})
    \/ process_batch_loop(0, {0})
    \/ Advance
SpecTracks == InitTracks /\ [][NextTracks]_vars

CleanBatch ==
    /\ last.op = "batch"
    /\ ~last.heartbeat_raised /\ ~last.build_raised /\ ~last.write_raised
TracksOf(label, id) == {n \in NodesOf(graph, label) : n.src = id}
\* exactly one edge of the type into n, and it comes from a node of the
\* label whose key has the value
OneEdgeFrom(n, type, label, key, val) ==
    /\ Cardinality({r \in graph.rels : r.type = type /\ r.to = n.id}) = 1
    /\ \A r \in graph.rels :
          (r.type = type /\ r.to = n.id) => r.from \in Matching(graph, label, key, val)

\* C9: after a batch that was written and not yet swept, every all_tracks
\* payload of the batch has one PlayerTrack node per player and one
\* BallTrack node per ball, each with exactly one HAS_ACTIVE_TRACK edge
\* from the Frame of its tickID and exactly one TRACKS_PLAYER / TRACKS_BALL
\* edge from the Camera of its subject.
C9_OneNodePerDetection ==
    (CleanBatch /\ ~last.swept) =>
       \A i \in 1..Len(last.batch_data) :
          LET b == last.batch_data[i] IN
          StartsWithTokenDot(b.topic, "all_tracks") =>
             /\ Cardinality(TracksOf("PlayerTrack", b.msg.id))
                   = Len(b.msg.data.d["players"].l)
             /\ Cardinality(TracksOf("BallTrack", b.msg.id))
                   = Len(b.msg.data.d["balls"].l)
             /\ \A n \in TracksOf("PlayerTrack", b.msg.id) :
                   /\ OneEdgeFrom(n, "HAS_ACTIVE_TRACK", "Frame", "tickID",
                                  n.props["tickID"])
                   /\ OneEdgeFrom(n, "TRACKS_PLAYER", "Camera", "cameraID",
                                  JStr(b.topic[2]))
             /\ \A n \in TracksOf("BallTrack", b.msg.id) :
                   /\ OneEdgeFrom(n, "HAS_ACTIVE_TRACK", "Frame", "tickID",
                                  n.props["tickID"])
                   /\ OneEdgeFrom(n, "TRACKS_BALL", "Camera", "cameraID",
                                  JStr(b.topic[2]))

(***************************************************************************)
(* Upserts: fusion.ball_3d and intents.processed payloads, repeated and    *)
(* changed.                                                                *)
(***************************************************************************)
IntentReasonMsg(camera, status, reason) ==
    Msg(<<"intents", "processed">>,
        JDict([camera_id |-> JStr(camera), status |-> JStr(status),
               reason |-> JStr(reason)]))
MsgsUpsert ==
    {TickMsg(1), FusionBallMsg("tracked"), FusionBallMsg("lost"),
     IntentReasonMsg("camera1", "active", "rule"), IntentMsg("camera1", "done")}
InitUpsert == InitAt({RollingWindow})
NextUpsert ==
    \/ \E m \in MsgsUpsert : message_handler(m.subject, m.data)
    \/ process_batch_loop_start({BootstrapCalls})
    \/ process_batch_loop(0, {0})
    \/ Advance
SpecUpsert == InitUpsert /\ [][NextUpsert]_vars

\* the payload at position i is the last of the batch for its upsert key
LastForKey(i) ==
    LET b == last.batch_data[i] IN
    \A j \in (i + 1)..Len(last.batch_data) :
       LET c == last.batch_data[j] IN
       \/ c.topic # b.topic
       \/ /\ StartsWithIntents(b.topic)
          /\ c.msg.data.d["camera_id"] # b.msg.data.d["camera_id"]
SameAsPayload(n, payload, names) ==
    \A x \in names : MapGet(n.props, x, NULL) = MapGet(payload.d, x, NULL)

\* C10: there is never more than one FusionBall3D node nor more than one
\* Intent node per cameraID; after a batch that was written, for every
\* fusion.ball_3d payload that is the last of the batch there is exactly one
\* FusionBall3D node and it has that payload's properties, and for every
\* intents.processed payload that is the last of the batch for its camera
\* there is exactly one Intent node of that cameraID and it has that
\* payload's properties.
C10_UpsertIdempotent ==
    /\ Cardinality(NodesOf(graph, "FusionBall3D")) <= 1
    /\ \A n1, n2 \in NodesOf(graph, "Intent") :
          n1.props["cameraID"] = n2.props["cameraID"] => n1 = n2
    /\ CleanBatch =>
          \A i \in 1..Len(last.batch_data) :
             LET b == last.batch_data[i] IN
             /\ (StartsWithFusionBall(b.topic) /\ LastForKey(i)) =>
                   /\ Cardinality(NodesOf(graph, "FusionBall3D")) = 1
                   /\ \A n \in NodesOf(graph, "FusionBall3D") :
                         SameAsPayload(n, b.msg.data,
                                       {"status", "timestamp", "velocity_mps",
                                        "fusion_method"})
             /\ (StartsWithIntents(b.topic) /\ LastForKey(i)) =>
                   /\ Cardinality(Matching(graph, "Intent", "cameraID",
                                           b.msg.data.d["camera_id"])) = 1
                   /\ \A n \in NodesOf(graph, "Intent") :
                         n.props["cameraID"] = b.msg.data.d["camera_id"] =>
                            SameAsPayload(n, b.msg.data,
                                          {"status", "reason", "intent_id"})
\* a written batch holding two intents.processed payloads for one camera,
\* the second of which drops a property the first one set
C10_Witness ==
    /\ CleanBatch
    /\ Len(last.batch_data) = 2
    /\ last.batch_data[1].topic = last.batch_data[2].topic
    /\ StartsWithIntents(last.batch_data[1].topic)
    /\ last.batch_data[1].msg.data = IntentReasonMsg("camera1", "active", "rule").data.v
    /\ last.batch_data[2].msg.data = IntentMsg("camera1", "done").data.v

(***************************************************************************)
(* The TTL sweeper: timed track payloads and persistent kinds, a sweep     *)
(* that may fail at any of its statements, a process started at a whole    *)
(* or at a half second.                                                    *)
(***************************************************************************)
\* all_tracks.<camera> with one player and "last_updated": secs (unix time)
TimedTracksMsg(camera, secs) ==
    Msg(<<"all_tracks", camera>>,
        JDict([players |-> JList(<<Player(1)>>),
               last_updated |-> JInt(secs)]))
MsgsSweep ==
    {TickMsg(1), TimedTracksMsg("camera1", 1),
     FusedPlayersMsg(7), IntentMsg("camera1", "active")}
InitSweep == InitAt({RollingWindow, RollingWindow + 1})
NextSweep ==
    \/ \E m \in MsgsSweep : message_handler(m.subject, m.data)
    \/ process_batch_loop_start({BootstrapCalls})
    \/ process_batch_loop(0, 0..Len(cleanup_statements))
    \/ Advance
SpecSweep == InitSweep /\ [][NextSweep]_vars

PersistentKinds ==
    {"Scene_Descriptor", "CameraConfig", "FusedPlayer", "FusionBall3D", "Intent"}
Persistent(g) == {[id |-> n.id, label |-> n.label] :
                     n \in {m \in g.nodes : m.label \in PersistentKinds}}

\* C6: an iteration of the batch loop, with its batch write and its sweep,
\* keeps every Scene_Descriptor, CameraConfig, FusedPlayer, FusionBall3D
\* and Intent node that was in the graph before it; in particular the sweep
\* removes none of those that were there when it started.
C6_PersistentKept ==
    last.op = "batch" =>
       /\ Persistent(last.start) \subseteq Persistent(graph)
       /\ last.swept => Persistent(last.before) \subseteq Persistent(graph)
\* a sweep that removed nodes from a graph holding a FusedPlayer and an Intent
C6_Witness ==
    /\ last.swept
    /\ last.before.nodes # graph.nodes
    /\ NodesOf(last.before, "FusedPlayer") # {}
    /\ NodesOf(last.before, "Intent") # {}

\* the attribute the sweeper's statement compares, for every node it matches
TimeOf(n) ==
    LET st == CHOOSE i \in 1..Len(cleanup_statements) :
                 cleanup_statements[i].label = n.label
    IN InstantOf(n.props[cleanup_statements[st].prop].s)
Timed(g) ==
    {n \in g.nodes :
        /\ \E i \in 1..Len(cleanup_statements) :
              /\ cleanup_statements[i].label = n.label
              /\ cleanup_statements[i].prop \in DOMAIN n.props}
\* C7: after a sweep all of whose statements ran, no PlayerTrack, BallTrack,
\* PTZState, CamParams, Frame or Camera node is left whose timestamp
\* attribute is an instant before the cutoff, and every such node whose
\* timestamp attribute is an instant after the cutoff is still there.
C7_SweepByTime ==
    (last.swept /\ last.stop = 0) =>
       /\ \A n \in Timed(graph) : TimeOf(n) >= InstantOf(last.cutoff.s)
       /\ \A n \in Timed(last.before) :
             TimeOf(n) > InstantOf(last.cutoff.s) => n \in graph.nodes

(***************************************************************************)
(* The scene after a bootstrap all of whose statements succeed: ingest on  *)
(* all_tracks, fused_players, fusion.ball_3d and intents.processed;        *)
(* sweeps.  camera7 is not one of the configured six.                      *)
(***************************************************************************)
\* all_tracks.<camera> with a PTZ object only
PtzTracksMsg(camera) ==
    Msg(<<"all_tracks", camera>>,
        JDict([PTZ |-> JDict([panposition |-> JFloat(1000)])]))
MsgsScene ==
    {TickMsg(1), PtzTracksMsg("camera7"), FusedPlayersMsg(7),
     FusionBallMsg("tracked"), IntentMsg("camera1", "active")}
InitScene == InitAt({RollingWindow})
NextScene ==
    \/ \E m \in MsgsScene : message_handler(m.subject, m.data)
    \/ process_batch_loop_start({BootstrapCalls})
    \/ process_batch_loop(0, {0})
    \/ Advance
SpecScene == InitScene /\ [][NextScene]_vars

Configured == {JStr(camera_configs[i]) : i \in 1..Len(camera_configs)}
FusedIds(rows) ==
    {rows[i].row.id : i \in {j \in 1..Len(rows) : rows[j].kind = "FusedPlayer"}}
MsgsKeys ==
    {TickMsg(1), PtzTracksMsg("camera1"), FusedPlayersMsg(7),
     IntentMsg("camera1", "active")}
InitKeys == InitAt({RollingWindow})
NextKeys ==
    \/ \E m \in MsgsKeys : message_handler(m.subject, m.data)
    \/ process_batch_loop_start({BootstrapCalls})
    \/ process_batch_loop(0, {0})
    \/ Advance
SpecKeys == InitKeys /\ [][NextKeys]_vars

OnePerKey(label, key) ==
    /\ \A n \in NodesOf(graph, label) : key \in DOMAIN n.props
    /\ \A n, m \in NodesOf(graph, label) :
          n.props[key] = m.props[key] => n = m
\* C11: in every reachable graph, whatever the bootstrap and the batches
\* wrote, every CameraConfig and every Intent has a cameraID and every
\* FusedPlayer an id, and no two CameraConfig nodes share a cameraID, no
\* two Intent nodes share a cameraID, no two FusedPlayer nodes share an id.
C11_OnePerKey ==
    /\ OnePerKey("CameraConfig", "cameraID")
    /\ OnePerKey("Intent", "cameraID")
    /\ OnePerKey("FusedPlayer", "id")
\* a batch wrote an Intent for a camera the bootstrap had configured, so
\* its MERGE of the CameraConfig met the bootstrap's node
C11_Witness ==
    /\ scene.complete
    /\ CleanBatch
    /\ OfKind(last.rows, "Intent") # <<>>
    /\ \E i \in NodesOf(graph, "Intent") :
          i.props["cameraID"] \in Configured

\* C12: in every state after the bootstrap has completed, exactly one
\* Scene_Descriptor node and exactly one FusionBall3D node exist.
C12_OneSceneOneBall ==
    scene.complete =>
       /\ Cardinality(NodesOf(graph, "Scene_Descriptor")) = 1
       /\ Cardinality(NodesOf(graph, "FusionBall3D")) = 1

\* a numeric tick in thousandths, as Python compares int, float and bool
TickValue(t) ==
    CASE t.k = "int" -> t.i * 1000
      [] t.k = "float" -> t.f
      [] t.k = "bool" -> IF t.b THEN 1000 ELSE 0
\* a step that changes current_tick is a delivery on a tickperframe subject
WrittenByTickBranch ==
    current_tick' # current_tick =>
       /\ received' = received + 1
       /\ StartsWithToken(handled'.subject, "tickperframe")
       /\ handled'.counted
\* an iteration that follows another observes a tick that is not smaller
ObservedNotSmaller ==
    (last.op = "batch" /\ last' # last) =>
       TickValue(last.tick) <= TickValue(last'.tick)
\* lemma: the first half of C13 alone holds on every step
SingleWriter == [][WrittenByTickBranch]_vars
\* C13: current_tick is written only by the tickperframe branch of
\* message_handler, and for any sequence of delivered messages the values
\* of current_tick observed by successive batch-loop iterations never
\* decrease.
C13_TickMonotone == [][WrittenByTickBranch /\ ObservedNotSmaller]_vars

(***************************************************************************)
(* The handler on subjects it filters, on payloads it cannot handle and on *)
(* ticks the loop cannot use                                               *)
(***************************************************************************)
\* fps.camera1 with a JSON object of n fields
FpsFields(n) ==
    IF n <= 3 THEN {"fps", "avg", "min"} ELSE {"fps", "avg", "min", "max"}
FpsMsg(n) ==
    Msg(<<"fps", "camera1">>, JDict([x \in FpsFields(n) |-> JInt(30)]))
MsgsHandler ==
    {TickMsg(1), FpsMsg(3), FpsMsg(4),
     Msg(<<"fps", "camera1">>, JInt(30)),
     Msg(<<"colour-control", "camera1">>, JStr("on")),
     Msg(<<"tickperframe">>, JList(<<>>)),
     Garbled(<<"fused_players">>), FusedPlayersMsg(7)}
InitHandler == InitAt({RollingWindow})
NextHandler ==
    \/ \E m \in MsgsHandler : message_handler(m.subject, m.data)
    \/ process_batch_loop_start({BootstrapCalls})
    \/ process_batch_loop(0, {0})
    \/ Advance
SpecHandler == InitHandler /\ [][NextHandler]_vars

\* the subject starts with fps., colour-control. or camera_mode_entry.
LowValuePrefix(subject) ==
    \E p \in {"fps", "colour-control", "camera_mode_entry"} :
       StartsWithTokenDot(subject, p)
\* a JSON object of at most three fields
AtMostThreeFields(data) ==
    data.ok /\ IsDict(data.v) /\ Cardinality(DOMAIN data.v.d) <= 3
AllIds(buf) == UNION {{buf[i].items[j].id : j \in 1..Len(buf[i].items)} :
                      i \in 1..Len(buf)}
\* C14: a message whose subject starts with a low-value prefix and whose
\* payload has at most 3 fields is not appended: the delivery leaves the
\* buffer without an item of it, and no subject with a low-value prefix
\* has an item buffered or drained or a node or relationship in the graph.
C14_LowValueNotBuffered ==
    /\ (LowValuePrefix(handled.subject) /\ AtMostThreeFields(handled.data)) =>
          /\ ~handled.appended
          /\ received \notin AllIds(buffer)
          /\ \A n \in graph.nodes : n.src # received
    /\ \A i \in 1..Len(buffer) :
          LowValuePrefix(buffer[i].topic) =>
             \A j \in 1..Len(buffer[i].items) :
                ~AtMostThreeFields([ok |-> TRUE, v |-> buffer[i].items[j].data])
    /\ \A t \in DOMAIN drained : ~LowValuePrefix(t)
\* fps.camera1 with three fields was delivered to a running service that
\* holds a buffered payload of another subject
C14_Witness ==
    /\ handled.running
    /\ handled.subject = <<"fps", "camera1">>
    /\ AtMostThreeFields(handled.data)
    /\ buffer # <<>>

(***************************************************************************)
(* The event loop: message_handler and process_batch_loop are coroutines   *)
(* of one asyncio loop, so one of them runs until it suspends.  Memgraph's *)
(* execute_query calls cursor.execute of mgclient, which does not suspend  *)
(* but blocks the thread of the loop until the database has answered       *)
(* (repository.py 64-68); phase "writing" is that time.                    *)
(***************************************************************************)
\* process_batch has reached `await self.query_executor.execute_queries`:
\* line 272, taken when items were drained
execute_queries_called ==
    /\ phase = "running"
    /\ Numeric(current_tick) /\ ~TickIsZero(current_tick)
    /\ ~TickOnHeartbeat(current_tick)
    /\ buffer # <<>>
    /\ phase' = "writing"
    /\ UNCHANGED <<buffer, cache, current_tick, metrics, graph, clock,
                   last_cleanup_time, scene, received, drained, last,
                   handled, seen>>
    /\ UNCHANGED <<pool_vars, close_vars, lock_vars>>
\* the database has answered: the iteration takes effect and the loop
\* suspends in the sleep of line 192
execute_queries_returned == batch_iteration("writing", 0, {0}, {OtherError})
\* the broker client's task runs the callback when the loop is free
deliver(subject, data) ==
    /\ phase # "writing"
    /\ message_handler(subject, data)
MsgsLoop == {TickMsg(1), PtzMsg("camera1", 1000), FusedPlayersMsg(7), FusionBallMsg("tracked")}
InitLoop == InitAt({RollingWindow})
NextLoop ==
    \/ \E m \in MsgsLoop : deliver(m.subject, m.data)
    \/ process_batch_loop_start({BootstrapCalls})
    \/ process_batch_loop(0, {0})
    \/ execute_queries_called
    \/ execute_queries_returned
    \/ Advance
SpecLoop == InitLoop /\ [][NextLoop]_vars

\* C15: appending never blocks broker delivery on a write: whenever a
\* batch write is in flight and a message is to be delivered, the
\* handler can run and complete its append.
C15_AppendDuringWrite ==
    (phase = "writing" /\ received < MaxMsgs) =>
       ENABLED (\E m \in MsgsLoop : deliver(m.subject, m.data))

\* lemma: outside a database call a delivery is never held back, whatever
\* the batch loop has drained, written or swept
DeliveredWhenLoopFree ==
    (phase # "writing" /\ received < MaxMsgs) =>
       ENABLED (\E m \in MsgsLoop : deliver(m.subject, m.data))

(***************************************************************************)
(* Iterations in which something raises                                    *)
(***************************************************************************)
\* tickperframe {"count": null}
NullTickMsg == Msg(<<"tickperframe">>, JDict([count |-> NULL]))
MsgsFaults ==
    {TickMsg(1), TickMsg(HeartbeatTicks), NullTickMsg, FusedPlayersMsg(7),
     Msg(<<"ptzinfo", "camera1">>, JInt(1))}
InitFaults == InitAt({RollingWindow})
NextFaults ==
    \/ \E m \in MsgsFaults : message_handler(m.subject, m.data)
    \/ process_batch_loop_start({BootstrapCalls})
    \/ process_batch_loop(MaxFail, {0, 1})
    \/ Advance
SpecFaults == InitFaults /\ [][NextFaults]_vars

\* lemma: an iteration in which process_batch raises (its heartbeat line,
\* the row builder, a write statement) or in which a sweep statement fails
\* leaves the loop running
CaughtInIteration ==
    [][(last' # last /\ (\/ last'.heartbeat_raised \/ last'.build_raised
                         \/ last'.write_raised \/ last'.stop # 0))
          => phase' = "running"]_vars
\* C16: no exception raised inside a batch-loop iteration terminates
\* process_batch_loop: once the loop runs it keeps running, each
\* iteration being followed by the next.
C16_LoopSurvives == [][phase = "running" => phase' = "running"]_vars

Dropped(m, subject) == MapGet(m.dropped_messages, subject, 0)
\* the delivery just handled failed: its payload is not JSON, or an
\* exception reached the except clause of the handler
HandlingFailed(h) == ~h.data.ok \/ h.raised
DropStep ==
    received' = received + 1 =>
       LET subject == handled'.subject IN
       /\ phase' = phase
       /\ ~handled'.data.ok => handled'.raised
       /\ \A t \in (DOMAIN metrics'.dropped_messages) \ {subject} :
             Dropped(metrics', t) = Dropped(metrics, t)
       /\ IF HandlingFailed(handled')
          THEN /\ Dropped(metrics', subject) = Dropped(metrics, subject) + 1
               /\ buffer' = buffer
               /\ ~handled'.appended
          ELSE Dropped(metrics', subject) = Dropped(metrics, subject)
\* C17: every delivery is handled to its end without touching the batch
\* loop; when its payload is not valid JSON or its handling fails, the
\* dropped-message counter of its subject grows by one, no other counter
\* of dropped messages changes and the buffer is left as it was; when the
\* handling succeeds no dropped-message counter changes.
C17_DropOnFailure == [][DropStep]_vars
\* a payload that is not JSON was dropped by a running service that holds
\* buffered payloads, after an earlier drop on another subject
C17_Witness ==
    /\ handled.running
    /\ ~handled.data.ok
    /\ buffer # <<>>
    /\ Dropped(metrics, handled.subject) = 1
    /\ Dropped(metrics, <<"tickperframe">>) = 1
\* lemma: the handler can take every delivery in every state
HandlerReturns ==
    received < MaxMsgs =>
       \A m \in MsgsHandler : ENABLED message_handler(m.subject, m.data)

(***************************************************************************)
(* Statements the database refuses, with a conflict or with another error  *)
(***************************************************************************)
MsgsRetry == {TickMsg(1), FusedPlayersMsg(7), FusionBallMsg("tracked")}
InitRetry == InitAt({RollingWindow})
NextRetry ==
    \/ \E m \in MsgsRetry : message_handler(m.subject, m.data)
    \/ process_batch_loop_start({BootstrapCalls})
    \/ process_batch_loop_answered(MaxFail, {0, 1})
    \/ Advance
SpecRetry == InitRetry /\ [][NextRetry]_vars

\* C18: a statement that fails with a 'conflicting transactions' error is
\* executed exactly once more, after one retry delay, and its error
\* reaches the caller only if that second execution fails too; a
\* statement that fails with any other error is executed once and its
\* error reaches the caller.
C18_RetryOnce ==
    last.answers # <<>> =>
       IF last.answers[1] = "conflict"
       THEN /\ last.query.attempts = 2
            /\ last.query.slept = 1
            /\ last.query.raised <=> last.answers[2] # "ok"
       ELSE /\ last.query.attempts = 1
            /\ last.query.slept = 0
            /\ last.query.raised
\* lemma: what execute_query does: one execution, and every error raised
NeverRetried ==
    last.answers # <<>> =>
       /\ last.query.attempts = 1
       /\ last.query.slept = 0
       /\ last.query.raised

\* C19: when a statement of a sweep fails with a 'conflicting transaction'
\* error the sweep is attempted again, at most cleanup_max_retries times
\* in all; when it fails with any other error the sweep is over after
\* that one attempt.
C19_SweepRetried ==
    (last.swept /\ last.stop # 0) =>
       IF last.answers[1] = "conflict"
       THEN last.passes \in 2..cleanup_max_retries
       ELSE last.passes = 1
\* lemma: every sweep is over after one pass, whatever its statements
\* were answered
OnePass == last.swept => last.passes = 1

(***************************************************************************)
(* Sweeps that fail at a statement, over nodes old enough to be matched    *)
(***************************************************************************)
MsgsOrder == {TickMsg(1), TimedTracksMsg("camera1", 0), FusedPlayersMsg(7)}
InitOrder == InitAt({RollingWindow})
NextOrder ==
    \/ \E m \in MsgsOrder : message_handler(m.subject, m.data)
    \/ process_batch_loop_start({BootstrapCalls})
    \/ process_batch_loop(0, 0..Len(cleanup_statements))
    \/ Advance
SpecOrder == InitOrder /\ [][NextOrder]_vars

C20_Order ==
    <<"PlayerTrack", "BallTrack", "PTZState", "CamParams", "Frame", "Camera">>
\* the positions of the statements a sweep issued without failure
C20_Ran(stop) == IF stop = 0 THEN 1..Len(C20_Order) ELSE 1..(stop - 1)
\* the nodes of a label that a statement on prop matches for the cutoff
C20_Matched(g, label, prop, cutoff) ==
    {n \in NodesOf(g, label) :
        prop \in DOMAIN n.props /\ CypherLess(n.props[prop], cutoff)}
\* C20: a sweep issues its statements in the order PlayerTrack, BallTrack,
\* PTZState, CamParams, Frame, Camera.  When the statement at some
\* position fails, the statements before it have deleted what they match,
\* no node of the failed or of a later statement's label is touched, the
\* sweep is over and the loop goes on; every sweep, also the one after a
\* failed sweep, starts with the first statement.
C20_SweepStopsAtFailure ==
    /\ [i \in 1..Len(cleanup_statements) |-> cleanup_statements[i].label] = C20_Order
    /\ last.swept =>
          /\ phase = "running"
          /\ \A i \in 1..Len(C20_Order) :
                IF i \in C20_Ran(last.stop)
                THEN \A n \in C20_Matched(last.before, C20_Order[i],
                                          cleanup_statements[i].prop, last.cutoff) :
                        n \notin graph.nodes
                ELSE NodesOf(graph, C20_Order[i]) = NodesOf(last.before, C20_Order[i])
\* a sweep whose Frame statement failed: the PlayerTrack its first
\* statement matched is gone, a Frame the failed statement matches is
\* still there, and so is a Camera that the statement after it would
\* have deleted
C20_Witness ==
    /\ last.swept
    /\ last.stop = 5
    /\ C20_Matched(last.before, "PlayerTrack", "last_updated", last.cutoff) # {}
    /\ C20_Matched(graph, "Frame", "timestamp", last.cutoff) # {}
    /\ C20_Matched(graph, "Camera", "last_active_timestamp", last.cutoff) # {}

(***************************************************************************)
(* The cadence of the sweeper: time passes between iterations, some of     *)
(* which find the tick unset and some of which fail in the write           *)
(***************************************************************************)
MsgsCadence == {TickMsg(0), TickMsg(1)}
InitCadence == InitAt({0})
NextCadence ==
    \/ \E m \in MsgsCadence : message_handler(m.subject, m.data)
    \/ process_batch_loop_start({BootstrapCalls})
    \/ process_batch_loop(MaxFail, {0, 1})
    \/ Advance
SpecCadence == InitCadence /\ [][NextCadence]_vars

\* a step of the batch loop: the loop was asleep, and neither a delivery
\* nor the clock made the step
IterationStep ==
    phase = "running" /\ received' = received /\ clock' = clock
\* the iteration came to line 226: the tick was set and process_batch
\* returned
ReachedCleanup ==
    /\ last'.op = "batch"
    /\ ~(last'.heartbeat_raised \/ last'.build_raised \/ last'.write_raised)
\* the wall clock is at least one interval past last_cleanup_time
Due == clock >= last_cleanup_time + CleanupInterval
\* the sweeper was invoked, once
SweptOnce == last'.swept /\ last'.passes = 1
\* C21 as stated: every iteration in which the wall clock is at least
\* cleanup_interval_seconds past the previous sweep invokes the sweeper
\* exactly once, and the sweeper is never invoked sooner.
C21_SweptWhenDue ==
    [][IterationStep =>
          (SweptOnce <=> Due)]_vars
\* C21 as amended: an iteration that comes to the cleanup step (the tick is
\* set and the drain, build and write did not raise) invokes the sweeper
\* exactly once when the wall clock is at least cleanup_interval_seconds
\* past last_cleanup_time, the time of the previous invocation or of the
\* loop's start; no other iteration invokes it, and it is never invoked
\* sooner than cleanup_interval_seconds after the previous invocation.
C21_SweptWhenReached ==
    [][/\ IterationStep =>
            /\ SweptOnce <=> (ReachedCleanup /\ Due)
            /\ ~SweptOnce => ~last'.swept /\ last_cleanup_time' = last_cleanup_time
            /\ SweptOnce => last_cleanup_time' = clock
       /\ last_cleanup_time' # last_cleanup_time =>
            (phase = "start" \/ (IterationStep /\ SweptOnce))]_vars
\* a sweep by an iteration two intervals after the loop's start
C21_Witness ==
    /\ last.swept
    /\ last.passes = 1
    /\ last_cleanup_time = clock
    /\ clock >= 2 * CleanupInterval
(***************************************************************************)
(* The pool under callers that take, use and hand back connections in any  *)
(* interleaving, after a start that opened all, some or none of the pooled *)
(* connections                                                             *)
(***************************************************************************)
InitPool == InitWith({0}, {EmptyGraph}, 0..pool_size)
NextPool ==
    \/ \E t \in Callers : get_pooled_connection(t)
    \/ \E t \in Callers : return_pooled_connection(t)
    \/ \E t \in Callers : execute_query_pooled_called(t)
    \/ \E t \in Callers : execute_query_pooled_returned(t)
SpecPool == InitPool /\ [][NextPool]_vars

\* C22: after any interleaving of get_pooled_connection,
\* return_pooled_connection and execute_query_pooled calls, including
\* those that fall back to the primary and those whose query raises, the
\* primary connection is not in connection_pool, the pool holds at most
\* pool_size connections and holds none twice.
C22_PoolSound ==
    /\ \A i \in 1..Len(connection_pool) : connection_pool[i] # primary
    /\ Len(connection_pool) <= pool_size
    /\ \A i, j \in 1..Len(connection_pool) :
          connection_pool[i] = connection_pool[j] => i = j
\* a query on the fallback primary raised and its connection was handed
\* back, while another caller still holds a pooled connection
C22_Witness ==
    /\ \E t \in Callers : held[t].pc = "idle" /\ held[t].raised
    /\ \E t \in Callers : held[t].pc = "held" /\ held[t].conn = primary
    /\ \E t \in Callers : held[t].pc = "held" /\ held[t].conn # primary
    /\ connection_pool # <<>>
(***************************************************************************)
(* Shutdown: a signal at any time, the loop leaving, and the calls of      *)
(* close() that follow, with a broker and a database that may fail         *)
(***************************************************************************)
MsgsStop == {TickMsg(1), FusedPlayersMsg(7)}
InitStop == InitAt({RollingWindow})
NextStop ==
    \/ \E m \in MsgsStop : deliver_open(m.subject, m.data)
    \/ process_batch_loop_start({BootstrapCalls})
    \/ process_batch_loop(0, {0})
    \/ \E i \in 1..Len(CloseCalls) : close_begin(CloseCalls[i])
    \/ \E i \in 1..Len(CloseCalls) :
          close_resume(CloseCalls[i], {"ok", "error"}, MaxFail)
SpecStop == InitStop /\ [][NextStop]_vars

ShutdownOrder == <<"flag", "broker", "drain", "cache", "metrics">>
ShutdownRank(step) == CHOOSE i \in 1..Len(ShutdownOrder) : ShutdownOrder[i] = step
\* the steps one call of close() has performed, in the order of the log
StepsOf(c) ==
    LET at == {i \in 1..Len(shutdown_log) : shutdown_log[i].call = c}
        nth(k) == CHOOSE i \in at : Cardinality({j \in at : j < i}) = k - 1
    IN [k \in 1..Cardinality(at) |-> shutdown_log[nth(k)].step]
\* C24: a call of close() performs its steps in this order, each after the
\* one before it has finished: set the shutdown flag, close the broker
\* connection, process the remaining buffer once, clear the change cache,
\* emit the final metrics snapshot.
C24_ShutdownOrder ==
    \A n \in 1..Len(CloseCalls) :
       LET c == CloseCalls[n]
           steps == StepsOf(c)
       IN
       /\ \A i, j \in 1..Len(steps) :
             i < j => ShutdownRank(steps[i]) < ShutdownRank(steps[j])
       /\ close_pc[c] # "none" => Len(steps) >= 1 /\ steps[1] = "flag"
       /\ close_pc[c] = "sleeping" => steps = <<"flag">>
       /\ close_pc[c] = "closing" => steps = <<"flag", "broker">>
       /\ close_pc[c] = "done" =>
             /\ steps[Len(steps)] = "metrics"
             /\ steps[Len(steps) - 1] = "cache"
\* a call that set the flag, closed the broker connection, processed a
\* buffered payload, cleared the cache and read the metrics
C24_Witness ==
    /\ close_pc["signal"] = "done"
    /\ StepsOf("signal") = ShutdownOrder
    /\ last.op = "close"
    /\ last.items_flushed > 0
    /\ cache = EmptyMap
    /\ nc_closed
    /\ shutdown_requested
(***************************************************************************)
(* Start-up against a database that is empty or holds the scene an earlier *)
(* run wrote, with a count query that may fail, a bootstrap that may stop  *)
(* at any statement, and a shutdown at any time                            *)
(***************************************************************************)
MsgsBoot == {TickMsg(1), FusedPlayersMsg(7)}
SceneLeft == initialize_all(EmptyGraph, BootstrapCalls)
InitBoot == InitWith({RollingWindow}, {EmptyGraph, SceneLeft}, {pool_size})
NextBoot ==
    \/ \E m \in MsgsBoot : deliver_open(m.subject, m.data)
    \/ startup(0..BootstrapCalls, {"ok", "error"})
    \/ process_batch_loop(0, {0})
    \/ \E i \in 1..Len(CloseCalls) : close_begin(CloseCalls[i])
    \/ \E i \in 1..Len(CloseCalls) : close_resume(CloseCalls[i], {"ok"}, 0)
SpecBoot == InitBoot /\ [][NextBoot]_vars

\* the count query of the startup check answered, and the database held a
\* Scene_Descriptor
CheckFindsScene ==
    scene'.check = "ok" /\ NodesOf(graph, "Scene_Descriptor") # {}
\* C23: SceneInitializer.initialize_all runs at most once per process
\* lifetime, strictly before the first drain of the batch loop, and is not
\* run at all when the startup check finds at least one Scene_Descriptor.
C23_BootstrapOnce ==
    [][/\ scene.runs <= 1 /\ scene'.runs <= 1
       /\ scene'.runs # scene.runs =>
             /\ phase = "start"
             /\ drained = EmptyMap /\ last.op = "none"
             /\ ~CheckFindsScene
       /\ (phase = "start" /\ phase' # "start" /\ CheckFindsScene) =>
             scene'.runs = 0 /\ graph' = graph
       /\ (drained' # drained \/ last'.op = "batch") => phase # "start"]_vars
\* the bootstrapper ran once, on an empty database, and the loop has since
\* drained and written a payload
C23_Witness ==
    /\ scene.runs = 1
    /\ ~scene.found
    /\ NodesOf(graph, "Scene_Descriptor") # {}
    /\ last.op = "batch"
    /\ last.items_flushed > 0
\* the start found the scene of an earlier run and the loop went on to drain
C23_Skipped ==
    /\ scene.found
    /\ scene.runs = 0
    /\ last.op = "batch"
    /\ last.items_flushed > 0
(***************************************************************************)
(* The same under a scheduler that lets the loop's task run: its sleep     *)
(* ends and the database answers its calls, so a loop that has not left    *)
(* goes on to its next while test.  Once the flag is set the steps of the  *)
(* loop's task are the steps of NextStop that change phase (a delivery and *)
(* a step of close leave it alone), and one is possible whenever the loop  *)
(* is at its start or asleep; the fairness is stated over these.           *)
(***************************************************************************)
loop_resumes ==
    /\ shutdown_requested
    /\ phase \in {"start", "running"}
    /\ phase' \in {"running", "stopped", "dead"}
SpecStopFair == SpecStop /\ WF_phase(loop_resumes)

\* process_batch_loop has returned or raised
LoopOver == phase \in {"stopped", "dead"}
\* the iteration that was in progress (asleep in line 192) when the flag was
\* set goes on to its end
FinalIteration == shutdown_requested /\ phase = "running" /\ phase' # phase
\* C25: once the shutdown flag is set, the batch loop starts no iteration
\* after the one in progress and process_batch_loop eventually terminates;
\* the drain of the iteration in progress runs to completion (it takes
\* what a drain takes, max_batch_size payloads or all there are).
C25_LoopStops ==
    /\ [][/\ FinalIteration =>
                /\ LoopOver'
                /\ (Numeric(current_tick) /\ ~TickIsZero(current_tick)) =>
                      /\ last'.op = "batch"
                      /\ last'.items_flushed =
                            Min(get_buffer_size(buffer), MaxBatch)
                      /\ get_buffer_size(buffer') =
                            get_buffer_size(buffer) - last'.items_flushed
          /\ (shutdown_requested /\ phase = "running" /\ phase' = phase) =>
                (last'.op \in {"batch", "skip"} => last' = last)
          /\ (phase' = "running" /\ phase # "running") => ~shutdown_requested
          /\ LoopOver =>
                /\ phase' = phase
                /\ last'.op \in {"batch", "skip"} => last' = last]_vars
    /\ (shutdown_requested ~> LoopOver)
\* the flag was set while the loop slept with a payload buffered; the
\* iteration went on, drained and wrote it, and the loop left
C25_Witness ==
    /\ shutdown_requested
    /\ phase = "stopped"
    /\ close_pc = [c \in DOMAIN close_pc |->
                     IF c = "signal" THEN "sleeping" ELSE "none"]
    /\ last.op = "batch"
    /\ last.items_flushed > 0
    /\ ~last.write_raised
(***************************************************************************)
(* The row builder called on its own: CypherBuilder.build_queries (and     *)
(* process_message, its alias) with any subscribed payload, a tick that is *)
(* None, zero or set, and the change cache the earlier calls left          *)
(***************************************************************************)
MsgsBuild ==
    {TickMsg(1), PtzMsg("camera1", 1000), PtzMsg("camera1", 3000),
     PlayerMsg("camera1", 1), FusionBallMsg("tracked"), FusedPlayersMsg(7),
     IntentMsg("camera1", "active")}
TicksBuild == {NULL, JInt(0), JInt(1)}
InitBuild == InitAt({RollingWindow})
\* build_queries(topic, data, current_tick) after set_system_timestamp
build_queries_called(msgs, ticks) ==
    /\ \E m \in msgs, tick \in ticks :
       \E r \in {build_queries(cache, m.subject, m.data.v, tick,
                               JStr(IsoFormat(clock)))} :
          /\ cache' = r.cache
          /\ last' = [NoBatch EXCEPT !.op = "build", !.tick = tick,
                                     !.batch_data = <<m.subject>>,
                                     !.rows = r.rows,
                                     !.build_raised = r.raised]
    /\ UNCHANGED <<buffer, current_tick, metrics, graph, clock,
                   last_cleanup_time, phase, scene, received, drained,
                   handled, seen, pool_vars, close_vars,
                   lock_vars>>
NextBuild ==
    \/ build_queries_called(MsgsBuild, TicksBuild)
    \/ Advance
SpecBuild == InitBuild /\ [][NextBuild]_vars

\* C26: build_queries emits no row for any subject when it is called with
\* current_tick = 0 (the tick is unset).
C26_SkipsAtTickZero ==
    (last.op = "build" /\ TickIsZero(last.tick)) => last.rows = <<>>
\* what the builder does skip: a tick that is None
SkipsAtNone ==
    (last.op = "build" /\ last.tick = NULL) =>
        last.rows = <<>> /\ ~last.build_raised
(***************************************************************************)
(* The service while the tick is unset, and after: tickperframe counts of  *)
(* zero and one, a payload, the loop, and a shutdown at any time           *)
(***************************************************************************)
MsgsUnset == {TickMsg(0), TickMsg(1), FusedPlayersMsg(7)}
InitUnset == InitAt({RollingWindow})
NextUnset ==
    \/ \E m \in MsgsUnset : deliver_open(m.subject, m.data)
    \/ process_batch_loop_start({BootstrapCalls})
    \/ process_batch_loop(0, {0})
    \/ \E i \in 1..Len(CloseCalls) : close_begin(CloseCalls[i])
    \/ \E i \in 1..Len(CloseCalls) :
          close_resume(CloseCalls[i], {"ok", "error"}, 0)
SpecUnset == InitUnset /\ [][NextUnset]_vars

\* in the running service the builder is not reached with a zero tick: the
\* loop continues before process_batch, and the process_batch of close()
\* raises in its first statement
BuiltAtSetTickOnly ==
    (last.op \in {"batch", "close"} /\ TickIsZero(last.tick)) =>
        last.rows = <<>> /\ last.issued = <<>>

\* every payload in the buffer is still there after the step, at its place
KeptInOrder ==
    \A i \in 1..Len(buffer) :
       /\ i <= Len(buffer')
       /\ buffer'[i].topic = buffer[i].topic
       /\ Len(buffer[i].items) <= Len(buffer'[i].items)
       /\ SubSeq(buffer'[i].items, 1, Len(buffer[i].items)) = buffer[i].items
\* a step of the loop's task in the while loop
LoopStep == phase = "running" /\ received' = received /\ close_pc' = close_pc
\* C27: while current_tick is 0 the batch loop performs no drain and no
\* write: an iteration goes back to the while test without calling
\* process_batch, and every payload buffered stays in the buffer, in order,
\* until a tickperframe message has set a non-zero tick.
C27_IdleAtTickZero ==
    [][current_tick = JInt(0) =>
          /\ LoopStep =>
                /\ last'.op = "skip"
                /\ UNCHANGED <<buffer, cache, drained, graph, current_tick,
                               metrics>>
          /\ close_pc' = close_pc =>
                /\ KeptInOrder
                /\ drained' = drained
                /\ phase # "start" => graph' = graph]_vars
\* the loop went round with the tick unset and two payloads buffered
C27_Witness ==
    /\ current_tick = JInt(0)
    /\ last.op = "skip"
    /\ phase = "running"
    /\ get_buffer_size(buffer) >= 2
    /\ drained = EmptyMap
(***************************************************************************)
(* The change cache behind the all_tracks gate of the handler and the      *)
(* ptzinfo rule of the row builder, with payloads that repeat and a        *)
(* payload that is the JSON text null                                      *)
(***************************************************************************)
NullTracksMsg(camera) == Msg(<<"all_tracks", camera>>, NULL)
MsgsGate ==
    {TickMsg(1), NullTracksMsg("camera1"), BallAtMsg("camera1", 0),
     PtzMsg("camera1", 1000)}
InitGate == InitAt({RollingWindow})
NextGate ==
    \/ \E m \in MsgsGate : message_handler(m.subject, m.data)
    \/ process_batch_loop_start({BootstrapCalls})
    \/ process_batch_loop(0, {0})
SpecGate == InitGate /\ [][NextGate]_vars

\* the step is a delivery that called has_meaningful_change_sync and, when
\* that returned true, appended (the batch processor exists)
GateCalled ==
    /\ received' # received
    /\ StartsWithTokenDot(handled'.subject, "all_tracks")
    /\ handled'.data.ok
    /\ handled'.running
\* what the claim says of a call with payload new_data, given whether the
\* stored payload counts as equal to it
CacheCheckAsSpecified(equal) ==
    LET topic == handled'.subject
        new_data == handled'.data.v
    IN
    /\ equal => ~handled'.appended /\ cache' = cache
    /\ ~equal =>
          /\ handled'.appended
          /\ cache' = [x \in DOMAIN cache \cup {topic} |->
                         IF x = topic THEN new_data ELSE cache[x]]
    /\ \A x \in DOMAIN cache \ {topic} : cache'[x] = cache[x]
\* C28: when the new payload equals the stored payload of its subject
\* within tolerance the check returns false and leaves the cache unchanged;
\* otherwise it replaces the stored payload of that subject only and
\* returns true; entries of other subjects are never modified.
C28_CacheCheck ==
    [][GateCalled =>
          CacheCheckAsSpecified(
             /\ handled'.subject \in DOMAIN cache
             /\ ~_is_meaningfully_different(cache[handled'.subject],
                                            handled'.data.v, TolAllTracks))]_vars
\* the same holds whenever the stored payload is not null
CacheCheckUnlessNull ==
    [][GateCalled =>
          CacheCheckAsSpecified(
             /\ handled'.subject \in DOMAIN cache
             /\ cache[handled'.subject] # NULL
             /\ ~_is_meaningfully_different(cache[handled'.subject],
                                            handled'.data.v, TolAllTracks))]_vars
(***************************************************************************)
(* Batches that write the same tick and the same camera again, at later    *)
(* instants, with sweeps in between                                        *)
(***************************************************************************)
MsgsAppend ==
    {TickMsg(1), FullTracksMsg("camera1", 1), PtzMsg("camera1", 1000),
     PtzMsg("camera1", 3000)}
InitAppend == InitAt({RollingWindow})
NextAppend ==
    \/ \E m \in MsgsAppend : message_handler(m.subject, m.data)
    \/ process_batch_loop_start({BootstrapCalls})
    \/ process_batch_loop(0, {0})
    \/ Advance
SpecAppend == InitAppend /\ [][NextAppend]_vars

\* the node is not in the graph after the step, and the step is an
\* iteration of the loop that ran the sweeper
DeletedBySweep(n) ==
    /\ \A m \in graph'.nodes : m.id # n.id
    /\ phase = "running" /\ received' = received /\ clock' = clock
    /\ last'.swept
\* the node is in the graph after the step with the properties it had, those
\* of `but` aside
KeepsProps(n, but) ==
    \E m \in graph'.nodes :
       /\ m.id = n.id
       /\ m.label = n.label
       /\ DOMAIN m.props \ but = DOMAIN n.props \ but
       /\ \A x \in DOMAIN n.props \ but : m.props[x] = n.props[x]
AppendOnly(labels) ==
    \A n \in graph.nodes :
       n.label \in labels => KeepsProps(n, {}) \/ DeletedBySweep(n)
\* C29 as stated: once a Frame, PlayerTrack, BallTrack, PTZState or CamParams
\* node has been created, no later batch write changes any of its
\* properties; the only later change to it is its deletion by the sweeper.
C29_AppendOnly ==
    [][AppendOnly({"Frame", "PlayerTrack", "BallTrack", "PTZState",
                   "CamParams"})]_vars
\* C29 as amended: that holds of PlayerTrack, BallTrack, PTZState and
\* CamParams nodes; of a Frame node a later batch write changes no property
\* but timestamp (it never changes tickID), and the only other later change
\* to it is its deletion by the sweeper.
C29_AppendOnlyButFrameTime ==
    [][/\ AppendOnly({"PlayerTrack", "BallTrack", "PTZState", "CamParams"})
       /\ \A n \in NodesOf(graph, "Frame") :
             KeepsProps(n, {"timestamp"}) \/ DeletedBySweep(n)]_vars
\* a PTZState written by an earlier batch is in the graph, as it was, after
\* a later batch wrote another PTZState of the same camera and tick and set
\* the timestamp of their Frame
C29_Witness ==
    /\ last.op = "batch"
    /\ ~last.write_raised
    /\ \E n1, n2 \in NodesOf(graph, "PTZState") :
          /\ n1.src \notin BatchIds
          /\ n2.src \in BatchIds
          /\ n1.props["stateID"] = n2.props["stateID"]
          /\ n1.props["timestamp"] # n2.props["timestamp"]
    /\ \E f \in NodesOf(graph, "Frame") :
          f.src \notin BatchIds /\ f.props["timestamp"] = last.rows[1].row.timestamp
\* the value of a property, null when the node does not have it
PropOf(n, x) == MapGet(n.props, x, NULL)
\* the (camera, tick) pair a state node was written for: its cameraID and
\* the ID the builder made of the camera and the tick of the batch
\* (stateID, paramsID = f"{cameraID}_{current_tick}")
CameraTickOf(n) ==
    <<PropOf(n, "cameraID"),
      IF n.label = "PTZState" THEN PropOf(n, "stateID")
      ELSE PropOf(n, "paramsID")>>
\* C30: after any sequence of ptzinfo.<camera> and all_tracks.<camera>
\* messages and batch writes, the graph holds at most one PTZState node and
\* at most one CamParams node per (camera, tick) pair.
C30_OneStatePerCameraTick ==
    \A label \in {"PTZState", "CamParams"} :
       \A n1, n2 \in NodesOf(graph, label) :
          CameraTickOf(n1) = CameraTickOf(n2) => n1 = n2
(***************************************************************************)
(* The row builder on all_tracks payloads: up to two balls and one player, *)
(* each with a track_id of 0 or 1, an id only, both, or neither            *)
(***************************************************************************)
BallKinds ==
    {Ball(0), Ball(1), JDict([id |-> JInt(5)]), JDict([id |-> JInt(0)]),
     JDict([track_id |-> JInt(0), id |-> JInt(5)]),
     JDict([confidence |-> JInt(1)])}
PlayerKinds == {Player(0), Player(1), JDict([id |-> JInt(5)])}
SeqsUpTo(S, n) == UNION {[1..k -> S] : k \in 0..n}
MaxBalls == 2
MaxPlayers == 1
MsgsDetect ==
    {TracksMsg("camera1", players, balls) :
        players \in SeqsUpTo(PlayerKinds, MaxPlayers),
        balls \in SeqsUpTo(BallKinds, MaxBalls)}
    \cup {FullTracksMsg("camera1", 7), PtzTracksMsg("camera1"),
          PtzMsg("camera1", 1000)}
InitDetect == InitAt({RollingWindow})
\* build_queries(topic, data, current_tick) for one payload of the batch
build_queries_of(msgs, ticks) ==
    /\ \E m \in msgs, tick \in ticks :
       \E r \in {build_queries(cache, m.subject, m.data.v, tick,
                               JStr(IsoFormat(clock)))} :
          /\ cache' = r.cache
          /\ last' = [NoBatch EXCEPT !.op = "build", !.tick = tick,
                                     !.batch_data =
                                         <<[topic |-> m.subject,
                                            msg |-> [id |-> 0, data |-> m.data.v]]>>,
                                     !.rows = r.rows,
                                     !.build_raised = r.raised]
    /\ UNCHANGED <<buffer, current_tick, metrics, graph, clock,
                   last_cleanup_time, phase, scene, received, drained,
                   handled, seen, pool_vars, close_vars,
                   lock_vars>>
NextDetect ==
    \/ build_queries_of(MsgsDetect, {JInt(1)})
    \/ Advance
SpecDetect == InitDetect /\ [][NextDetect]_vars

\* the identifier the claim gives a ball: its track_id or, failing that, its id
BallIdentifier(ball) ==
    IF MapGet(ball.d, "track_id", NULL) # NULL THEN ball.d["track_id"]
    ELSE MapGet(ball.d, "id", NULL)
PlayerIdentifier(player) == MapGet(player.d, "track_id", NULL)
\* the objects of the payload under the key, and the rows of the kind
BuiltFrom(key) == Elements(MapGet(last.batch_data[1].msg.data.d, key, JList(<<>>)))
BuiltRows(kind) == OfKind(last.rows, kind)
\* C31: for an all_tracks payload the builder emits exactly one BallTrack row
\* for every ball with a non-null track_id or, failing that, a non-null id
\* (0 included), exactly one PlayerTrack row for every player with a non-null
\* track_id, and no track row for any other ball or player.
C31_OneRowPerIdentified ==
    (last.op = "build" /\ ~last.build_raised) =>
        /\ \A v \in {JInt(0), JInt(1), JInt(5)} :
              Cardinality({i \in 1..Len(BuiltRows("BallTrack")) :
                              BuiltRows("BallTrack")[i].row["track_id"] = v})
              = Cardinality({i \in 1..Len(BuiltFrom("balls")) :
                                BallIdentifier(BuiltFrom("balls")[i]) = v})
        /\ Len(BuiltRows("BallTrack"))
              = Cardinality({i \in 1..Len(BuiltFrom("balls")) :
                                BallIdentifier(BuiltFrom("balls")[i]) # NULL})
        /\ \A v \in {JInt(0), JInt(1), JInt(5)} :
              Cardinality({i \in 1..Len(BuiltRows("PlayerTrack")) :
                              BuiltRows("PlayerTrack")[i].row["track_id"] = v})
              = Cardinality({i \in 1..Len(BuiltFrom("players")) :
                                PlayerIdentifier(BuiltFrom("players")[i]) = v})
        /\ Len(BuiltRows("PlayerTrack"))
              = Cardinality({i \in 1..Len(BuiltFrom("players")) :
                                PlayerIdentifier(BuiltFrom("players")[i]) # NULL})
\* the part of C31 that is about players
PlayerRowsAsClaimed ==
    (last.op = "build" /\ ~last.build_raised) =>
        /\ \A v \in {JInt(0), JInt(1), JInt(5)} :
              Cardinality({i \in 1..Len(BuiltRows("PlayerTrack")) :
                              BuiltRows("PlayerTrack")[i].row["track_id"] = v})
              = Cardinality({i \in 1..Len(BuiltFrom("players")) :
                                PlayerIdentifier(BuiltFrom("players")[i]) = v})
        /\ Len(BuiltRows("PlayerTrack"))
              = Cardinality({i \in 1..Len(BuiltFrom("players")) :
                                PlayerIdentifier(BuiltFrom("players")[i]) # NULL})
\* what the builder does with balls: a row for the balls whose track_id is
\* neither null nor 0, whatever their id
BallRowsAsBuilt ==
    (last.op = "build" /\ ~last.build_raised) =>
        [i \in 1..Len(BuiltRows("BallTrack")) |->
            BuiltRows("BallTrack")[i].row["track_id"]]
        = SelectSeq([i \in 1..Len(BuiltFrom("balls")) |->
                        MapGet(BuiltFrom("balls")[i].d, "track_id", NULL)],
                    LAMBDA t : t # NULL /\ t # JInt(0))
\* the calls of the batch that are link statements
LinkCalls(rows) == {i \in 1..Len(Calls(rows)) : Calls(rows)[i].link # ""}
KindsOf(calls) == [i \in 1..Len(calls) |-> calls[i].kind]
\* C32: a failure of the separate HAS_BALL or HAS_PLAYER statement is
\* swallowed: execute_queries does not raise for it, every statement of the
\* batch is still issued, and the later kinds (FusedPlayer, Intent) are
\* written as they are without the failure; only edges of the failed link
\* statement are missing.
C32_LinkFailureSwallowed ==
    (last.op = "batch" /\ ~last.heartbeat_raised /\ ~last.build_raised) =>
        \E clean \in {execute_queries(last.start, last.rows, {})} :
           ~clean.raised =>
              \A i \in LinkCalls(last.rows) :
                 \E r \in {execute_queries(last.start, last.rows, {i})} :
                    /\ ~r.raised
                    /\ r.done = Len(Calls(last.rows))
                    /\ r.issued = KindsOf(Calls(last.rows))
                    /\ r.g.nodes = clean.g.nodes
                    /\ r.g.rels \subseteq clean.g.rels
                    /\ \A e \in clean.g.rels \ r.g.rels :
                          e.type = Calls(last.rows)[i].link
\* an iteration in which the database refused the HAS_PLAYER statement and
\* the Intent of the same batch is in the graph
C32_Witness ==
    /\ last.op = "batch" /\ last.query.raised /\ ~last.write_raised
    /\ LinkCalls(last.rows) # {}
    /\ \E n \in NodesOf(graph, "Intent") : n.src \in BatchIds
    /\ \E n \in NodesOf(graph, "FusedPlayer") : n.src \in BatchIds
    /\ NodesOf(graph, "Scene_Descriptor") # {}
    /\ ~\E e \in graph.rels : e.type = "HAS_PLAYER"
\* an iteration that calls process_batch: the tick is a number other than 0
DrainStep == IterationStep /\ Numeric(current_tick) /\ ~TickIsZero(current_tick)
BufferTopics(buf) == [i \in 1..Len(buf) |-> buf[i].topic]
\* the payloads of the subject in the batch, in batch order
TakenOf(batch_data, topic) ==
    LET of == SelectSeq(batch_data, LAMBDA b : b.topic = topic)
    IN [i \in 1..Len(of) |-> of[i].msg]
\* the drain as C33 describes it, from buffer to buffer'
DrainedAsClaimed ==
    /\ last'.op = "batch"
    /\ Len(last'.batch_data) = Min(get_buffer_size(buffer), MaxBatch)
    /\ get_buffer_size(buffer') = get_buffer_size(buffer) - Len(last'.batch_data)
    /\ \A i \in 1..Len(buffer) :
          LET t == buffer[i].topic IN
          /\ buffer[i].items = TakenOf(last'.batch_data, t) \o BufferItems(buffer', t)
          /\ (\E j \in 1..Len(buffer') : buffer'[j].topic = t)
                <=> Len(TakenOf(last'.batch_data, t)) < Len(buffer[i].items)
    /\ \A j \in 1..Len(buffer') : buffer'[j].items # <<>>
    /\ BufferTopics(buffer') =
          SelectSeq(BufferTopics(buffer),
                    LAMBDA t : \E j \in 1..Len(buffer') : buffer'[j].topic = t)
\* C33: one process_batch call removes exactly min(buffered, max_batch_size)
\* payloads, a head of each subject's list; what it leaves stays in its
\* subject's list in order, and a subject's entry is deleted exactly when its
\* list was drained in full.
C33_ExactDrain == [][DrainStep => DrainedAsClaimed]_vars
\* the same for the calls whose heartbeat line is not reached
ExactDrainOffHeartbeat ==
    [][(DrainStep /\ ~TickOnHeartbeat(current_tick)) => DrainedAsClaimed]_vars
\* a call on the heartbeat tick leaves a buffer that is not empty as it is
HeartbeatDrainsNothing ==
    [][(DrainStep /\ TickOnHeartbeat(current_tick)) =>
          /\ buffer' = buffer
          /\ last'.heartbeat_raised /\ last'.batch_data = <<>>]_vars
\* C34: every PTZState and CamParams row the builder emits carries tickID
\* equal to the current_tick it was called with.
C34_StateRowsCarryTick ==
    last.op = "build" =>
        \A i \in 1..Len(last.rows) :
           last.rows[i].kind \in {"PTZState", "CamParams"} =>
              last.rows[i].row["tickID"] = last.tick
\* the object of the payload a row of the kind is built from
StateSource(kind) ==
    LET data == last.batch_data[1].msg.data IN
    CASE kind = "CamParams" -> data.d["cam_params"]
      [] last.batch_data[1].topic[1] = "ptzinfo" -> data
      [] OTHER -> data.d["PTZ"]
\* what the rows carry: the stateID or paramsID is made of the tick, the
\* tickID is the one of the payload's own object, null when it has none
StateRowsCarryPayloadTick ==
    last.op = "build" =>
        \A i \in 1..Len(last.rows) :
           last.rows[i].kind \in {"PTZState", "CamParams"} =>
              /\ last.rows[i].row[IF last.rows[i].kind = "PTZState"
                                  THEN "stateID" ELSE "paramsID"]
                    = JFmt(last.rows[i].row["cameraID"].s, last.tick)
              /\ last.rows[i].row["tickID"]
                    = MapGet(StateSource(last.rows[i].kind).d, "tickID", NULL)
\* the kinds of the rows of the batch that were built from payload number id
KindsFrom(rows, id) ==
    LET of == SelectSeq(rows, LAMBDA r : r.src = id)
    IN [i \in 1..Len(of) |-> of[i].kind]
\* every payload of the batch that the builder turns into rows on its own
\* has those rows among the rows handed to the writer (ptzinfo payloads
\* aside, whose rows depend on the cache at the time of the call)
BuildableAreBuilt ==
    \A i \in 1..Len(last.batch_data) :
       LET b == last.batch_data[i] IN
       b.topic[1] # "ptzinfo" =>
          \E r \in {build_queries(cache, b.topic, b.msg.data, last.tick,
                                  JStr(IsoFormat(clock)))} :
             ~r.raised =>
                KindsFrom(last.rows, b.msg.id) = KindsOf(r.rows)
\* C35: when one drained payload cannot be turned into rows, only that
\* payload is dropped: the rows of every other payload of the same drain
\* are handed to the writer.
C35_OnlyBadPayloadDropped ==
    (last.op = "batch" /\ ~last.heartbeat_raised) => BuildableAreBuilt
\* the same for the drains in which no call of the builder raises
BadPayloadDroppedUnlessRaised ==
    (last.op = "batch" /\ ~last.heartbeat_raised /\ ~last.build_raised) =>
        BuildableAreBuilt
\* a drain in which a call of the builder raises writes nothing
RaisedBuildWritesNothing ==
    (last.op = "batch" /\ last.build_raised) =>
        /\ last.rows = <<>> /\ last.issued = <<>>
        /\ last.items_flushed = Len(last.batch_data)
        /\ \A n \in graph.nodes : n.src \notin BatchIds
\* the iteration drains min(buffered, max_batch_size) payloads and, unless
\* the row builder raises, hands the rows built from them to the writer
DrainsAndHandsOver ==
    /\ last'.op = "batch"
    /\ last'.items_flushed = Min(get_buffer_size(buffer), MaxBatch)
    /\ get_buffer_size(buffer') = get_buffer_size(buffer) - last'.items_flushed
    /\ ~last'.build_raised =>
          /\ \A i \in 1..Len(last'.rows) : last'.rows[i].src \in
                {last'.batch_data[j].msg.id : j \in 1..Len(last'.batch_data)}
          /\ last'.rows # <<>> => last'.issued # <<>>
\* C36: for every non-zero value of current_tick, when the buffer is not
\* empty and shutdown has not been requested, the next iteration of the batch
\* loop drains min(buffered, max_batch_size) payloads and hands their rows
\* to the writer.
C36_DrainProgress ==
    [][(DrainStep /\ buffer # <<>> /\ ~shutdown_requested)
          => DrainsAndHandsOver]_vars
\* the same for the ticks that are not multiples of 1000
DrainProgressOffHeartbeat ==
    [][(DrainStep /\ buffer # <<>> /\ ~shutdown_requested
        /\ ~TickOnHeartbeat(current_tick)) => DrainsAndHandsOver]_vars
\* C37: no buffered payload is lost at shutdown: when a call of close() has
\* closed the broker connection and run to its end, every payload that was
\* in the buffer has been handed to the writer and the buffer is empty.
C37_NothingLeftAtShutdown ==
    \A n \in 1..Len(CloseCalls) :
       (close_pc[CloseCalls[n]] = "done" /\ nc_closed) => buffer = <<>>
\* what a call of close() does with the buffer: one process_batch, which
\* takes min(buffered, max_batch_size) payloads, or nothing when it raises
\* in its heartbeat line (tick 0 or a multiple of 1000)
CloseDrainsOneBatch ==
    [][\A n \in 1..Len(CloseCalls) :
          (close_pc[CloseCalls[n]] = "closing"
           /\ close_pc'[CloseCalls[n]] # "closing") =>
             IF phase # "start" /\ buffer # <<>>
             THEN /\ last'.op = "close"
                  /\ last'.items_flushed =
                        (IF last'.heartbeat_raised THEN 0
                         ELSE Min(get_buffer_size(buffer), MaxBatch))
                  /\ get_buffer_size(buffer') =
                        get_buffer_size(buffer) - last'.items_flushed
                  /\ close_pc'[CloseCalls[n]] = "done" <=>
                        ~(\/ last'.heartbeat_raised \/ last'.build_raised
                          \/ last'.write_raised)
             ELSE buffer' = buffer /\ last' = last]_vars
\* the loop has ended, a call of close() has run to its end without an
\* exception, and a payload is still in the buffer
LeftBehindAfterLoop ==
    /\ LoopOver /\ nc_closed /\ buffer # <<>>
    /\ \E n \in 1..Len(CloseCalls) : close_pc[CloseCalls[n]] = "done"
(***************************************************************************)
(* BatchProcessor's locks.  A task runs until it awaits; the awaits of the *)
(* buffer's methods are the lock acquisitions of `async with` and the call *)
(* of the writer.  A step below runs a task from one await to the next.    *)
(* asyncio does not suspend a task that acquires a free lock, so the       *)
(* scheduler produces a subset of the interleavings of these steps.        *)
(***************************************************************************)
Goto(me, pc) == [tasks EXCEPT ![me].pc = pc]
\* self._buffer[topic] of a defaultdict(list): a missing key is inserted
Touch(buf, topic) ==
    IF \E i \in 1..Len(buf) : buf[i].topic = topic THEN buf
    ELSE Append(buf, [topic |-> topic, items |-> <<>>])
SetItems(buf, topic, items) ==
    [i \in 1..Len(buf) |->
        IF buf[i].topic = topic THEN [topic |-> topic, items |-> items]
        ELSE buf[i]]
DelTopic(buf, topic) == SelectSeq(buf, LAMBDA e : e.topic # topic)
UnchangedService ==
    UNCHANGED <<cache, current_tick, metrics, graph, clock, last_cleanup_time,
                phase, scene, last, handled, seen, pool_vars, close_vars>>

\* a task calls a method of the buffer and comes to its first `async with`
call_add_to_buffer(me, topic) ==
    /\ tasks[me].pc = "idle"
    /\ received < MaxMsgs
    /\ received' = received + 1
    /\ tasks' = [tasks EXCEPT ![me] =
                    [IdleTask EXCEPT !.op = "add_to_buffer", !.pc = "topic_wait",
                                     !.topics = <<topic>>,
                                     !.item = [id |-> received + 1,
                                               data |-> JInt(received + 1)]]]
    /\ UNCHANGED <<buffer, drained, locks>>
    /\ UnchangedService
call_method(me, op) ==
    /\ tasks[me].pc = "idle"
    /\ tasks' = [tasks EXCEPT ![me] = [IdleTask EXCEPT !.op = op,
                                                       !.pc = "global_wait"]]
    /\ UNCHANGED <<buffer, drained, received, locks>>
    /\ UnchangedService

\* `async with self._global_lock` / `async with self._topic_locks[topic]`:
\* the task goes on when the lock is free
acquire(me) ==
    /\ \/ /\ tasks[me].pc \in {"global_wait", "nested_wait"}
          /\ locks.global = ""
          /\ locks' = [locks EXCEPT !.global = me]
          /\ tasks' = Goto(me, IF tasks[me].pc = "global_wait"
                               THEN "global_held" ELSE "nested_held")
       \/ /\ tasks[me].pc = "topic_wait"
          /\ locks.topics[Head(tasks[me].topics)] = ""
          /\ locks' = [locks EXCEPT !.topics[Head(tasks[me].topics)] = me]
          /\ tasks' = Goto(me, "topic_held")
    /\ UNCHANGED <<buffer, drained, received>>
    /\ UnchangedService

\* add_to_buffer, lines 72-74: append under the lock of the subject
add_to_buffer_locked(me) ==
    /\ tasks[me].op = "add_to_buffer" /\ tasks[me].pc = "topic_held"
    /\ buffer' = add_to_buffer(buffer, Head(tasks[me].topics), tasks[me].item)
    /\ locks' = [locks EXCEPT !.topics[Head(tasks[me].topics)] = ""]
    /\ tasks' = [tasks EXCEPT ![me] = IdleTask]
    /\ UNCHANGED <<drained, received>>
    /\ UnchangedService

\* the global lock held on while the sizes are summed
global_kept_while_summing(me) == me
\* line 80: the `async with self._global_lock` block ends after the listing
global_after_listing(me) == ""
SizeMethods == {"get_buffer_size", "get_topic_buffer_sizes"}
\* the lock state when the method returns
Released(me, lk) ==
    [global |-> IF lk.global = me THEN "" ELSE lk.global,
     topics |-> [t \in LockTopics |->
                    IF lk.topics[t] = me THEN "" ELSE lk.topics[t]]]
\* get_buffer_size and get_topic_buffer_sizes, lines 76-97: list the
\* subjects under the global lock, then read each length under its lock
sizes_listed(me) ==
    /\ tasks[me].op \in SizeMethods /\ tasks[me].pc = "global_held"
    /\ \E lk \in {[locks EXCEPT !.global = global_after_listing(me)]} :
          IF buffer = <<>>
          THEN /\ locks' = Released(me, lk)
               /\ tasks' = [tasks EXCEPT ![me] = IdleTask]
          ELSE /\ locks' = lk
               /\ tasks' = [tasks EXCEPT ![me].pc = "topic_wait",
                                         ![me].topics = BufferKeys(buffer)]
    /\ UNCHANGED <<buffer, drained, received>>
    /\ UnchangedService
sizes_read(me) ==
    /\ tasks[me].op \in SizeMethods /\ tasks[me].pc = "topic_held"
    /\ \E topic \in {Head(tasks[me].topics)} :
       \E lk \in {[locks EXCEPT !.topics[topic] = ""]} :
          /\ buffer' = Touch(buffer, topic)
          /\ IF Len(tasks[me].topics) = 1
             THEN /\ locks' = Released(me, lk)
                  /\ tasks' = [tasks EXCEPT ![me] = IdleTask]
             ELSE /\ locks' = lk
                  /\ tasks' = [tasks EXCEPT ![me].pc = "topic_wait",
                                            ![me].topics = Tail(@),
                                            ![me].items_flushed =
                                                @ + Len(BufferItems(buffer, topic))]
    /\ UNCHANGED <<drained, received>>
    /\ UnchangedService

\* get_fill_rates, lines 107-115: the rates are read under the global lock
fill_rates_read(me) ==
    /\ tasks[me].op = "get_fill_rates" /\ tasks[me].pc = "global_held"
    /\ locks' = [locks EXCEPT !.global = ""]
    /\ tasks' = [tasks EXCEPT ![me] = IdleTask]
    /\ UNCHANGED <<buffer, drained, received>>
    /\ UnchangedService

\* the drain computed from the subjects and lists as they were when the
\* method was called
drain_of_snapshot(current, snapshot) == DrainFrom(snapshot, 0, MaxBatch)
\* lines 224-249: the drain works on the lists of self._buffer themselves
drain_section(current, snapshot) == DrainFrom(current, 0, MaxBatch)
\* process_batch, lines 223-249, then the build loop and the await of the
\* writer
process_batch_called(me) ==
    /\ tasks[me].pc = "idle"
    /\ tasks' = [tasks EXCEPT ![me] =
                    [IdleTask EXCEPT !.op = "process_batch", !.pc = "global_wait",
                                     !.batch_data = buffer]]
    /\ UNCHANGED <<buffer, drained, received, locks>>
    /\ UnchangedService
process_batch_locked(me) ==
    /\ tasks[me].op = "process_batch" /\ tasks[me].pc = "global_held"
    /\ \E d \in {drain_section(buffer, tasks[me].batch_data)} :
          /\ buffer' = d.rest
          /\ tasks' = IF d.items_flushed > 0
                      THEN [tasks EXCEPT ![me].pc = "writing",
                                         ![me].batch_data = d.batch_data,
                                         ![me].items_flushed = d.items_flushed]
                      ELSE [tasks EXCEPT ![me] = IdleTask]
    /\ locks' = [locks EXCEPT !.global = ""]
    /\ UNCHANGED <<drained, received>>
    /\ UnchangedService
\* execute_queries has the batch; the method returns
writer_returns(me) ==
    /\ tasks[me].pc = "writing"
    /\ drained' = Record(drained, tasks[me].batch_data)
    /\ tasks' = [tasks EXCEPT ![me] = IdleTask]
    /\ UNCHANGED <<buffer, received, locks>>
    /\ UnchangedService

\* process_all_batches, lines 149-174
\* where the loop over the subjects goes after a subject: the next subject,
\* or past the loop (lines 157-159, 176-205)
NextSubject(t) ==
    IF Len(t.topics) > 1 /\ t.items_flushed < MaxBatch
    THEN [t EXCEPT !.pc = "topic_wait", !.topics = Tail(@), !.topic_items = 0]
    ELSE IF t.items_flushed > 0
    THEN [t EXCEPT !.pc = "writing", !.topics = <<>>, !.topic_items = 0]
    ELSE IdleTask
all_batches_listed(me) ==
    /\ tasks[me].op = "process_all_batches" /\ tasks[me].pc = "global_held"
    /\ locks' = [locks EXCEPT !.global = ""]
    /\ tasks' = IF buffer = <<>> THEN [tasks EXCEPT ![me] = IdleTask]
                ELSE [tasks EXCEPT ![me].pc = "topic_wait",
                                   ![me].topics = BufferKeys(buffer)]
    /\ UNCHANGED <<buffer, drained, received>>
    /\ UnchangedService
\* lines 161-167: pop from the head of the subject's list up to the limit
all_batches_popped(me) ==
    /\ tasks[me].op = "process_all_batches" /\ tasks[me].pc = "topic_held"
    /\ \E topic \in {Head(tasks[me].topics)} :
       \E items \in {BufferItems(buffer, topic)} :
       \E n \in {Min(Len(items), MaxBatch - tasks[me].items_flushed)} :
       \E t \in {[tasks[me] EXCEPT
                     !.batch_data = @ \o [i \in 1..n |->
                                             [topic |-> topic, msg |-> items[i]]],
                     !.topic_items = n]} :
          /\ buffer' = SetItems(Touch(buffer, topic), topic,
                                SubSeq(items, n + 1, Len(items)))
          /\ IF n = Len(items)
             THEN \* line 170: the list is empty, take the global lock too
                  /\ tasks' = [tasks EXCEPT ![me] = [t EXCEPT !.pc = "nested_wait"]]
                  /\ UNCHANGED locks
             ELSE /\ tasks' = [tasks EXCEPT ![me] =
                                  NextSubject([t EXCEPT !.items_flushed = @ + n])]
                  /\ locks' = [locks EXCEPT !.topics[topic] = ""]
    /\ UNCHANGED <<drained, received>>
    /\ UnchangedService
\* lines 171-174: delete the entry when the list is still empty
all_batches_deleted(me) ==
    /\ tasks[me].op = "process_all_batches" /\ tasks[me].pc = "nested_held"
    /\ \E topic \in {Head(tasks[me].topics)} :
          /\ buffer' = IF BufferItems(buffer, topic) = <<>>
                       THEN DelTopic(buffer, topic) ELSE buffer
          /\ locks' = [locks EXCEPT !.global = "", !.topics[topic] = ""]
          /\ tasks' = [tasks EXCEPT ![me] =
                          NextSubject([tasks[me] EXCEPT
                                          !.items_flushed = @ + tasks[me].topic_items])]
    /\ UNCHANGED <<drained, received>>
    /\ UnchangedService

InitLocks == InitAt({RollingWindow})
NextLocks ==
    \/ \E me \in {"h1", "h2"}, topic \in LockTopics : call_add_to_buffer(me, topic)
    \/ \E op \in SizeMethods \cup {"get_fill_rates"} : call_method("loop", op)
    \/ call_method("flush", "process_all_batches")
    \/ process_batch_called("loop")
    \/ \E me \in Tasks : acquire(me)
    \/ \E me \in Tasks : add_to_buffer_locked(me)
    \/ \E me \in Tasks : sizes_listed(me)
    \/ \E me \in Tasks : sizes_read(me)
    \/ \E me \in Tasks : fill_rates_read(me)
    \/ \E me \in Tasks : process_batch_locked(me)
    \/ \E me \in Tasks : all_batches_listed(me)
    \/ \E me \in Tasks : all_batches_popped(me)
    \/ \E me \in Tasks : all_batches_deleted(me)
    \/ \E me \in Tasks : writer_returns(me)
SpecLocks == InitLocks /\ [][NextLocks]_vars
\* the payloads whose append has been done
Pending == {tasks[t].item.id : t \in {u \in Tasks : tasks[u].op = "add_to_buffer"}}
Appended == (1..received) \ Pending
\* how often payload id is in the buffer, in a batch a drain holds, and
\* among the payloads handed to the writer
TimesIn(s, id) == Cardinality({i \in 1..Len(s) : s[i] = id})
InBuffer(id) ==
    Cardinality({<<i, j>> \in (1..Len(buffer)) \X (1..MaxMsgs) :
                    j <= Len(buffer[i].items) /\ buffer[i].items[j].id = id})
InBatch(id) ==
    Cardinality({<<t, i>> \in {u \in Tasks : tasks[u].op \in
                                   {"process_all_batches"}
                                   \/ tasks[u].pc = "writing"} \X (1..MaxMsgs) :
                    /\ i <= Len(tasks[t].batch_data)
                    /\ tasks[t].batch_data[i].msg.id = id})
InDrained(id) ==
    Cardinality({<<topic, i>> \in (DOMAIN drained) \X (1..MaxMsgs) :
                    i <= Len(drained[topic]) /\ drained[topic][i] = id})
\* C38: no append is lost to a concurrent drain: in every interleaving of
\* add_to_buffer with process_batch (and the other methods), each appended
\* payload is in the buffer, or in the batch of one drain, or was handed to
\* the writer by one drain; it is in exactly one of these places, once.
C38_NoLostAppend ==
    /\ \A id \in Appended : InBuffer(id) + InBatch(id) + InDrained(id) = 1
    /\ \A id \in (1..MaxMsgs) \ Appended :
          InBuffer(id) + InBatch(id) + InDrained(id) = 0
\* process_batch holds the global lock, about to drain, while a callback
\* holds the lock of a subject, about to append; an earlier append was
\* drained
C38_Witness ==
    /\ tasks["loop"].op = "process_batch" /\ tasks["loop"].pc = "global_held"
    /\ tasks["h1"].op = "add_to_buffer" /\ tasks["h1"].pc = "topic_held"
    /\ buffer # <<>>
    /\ drained # EmptyMap

Waiting(t) == tasks[t].pc \in {"global_wait", "nested_wait", "topic_wait"}
\* the task that holds the lock t waits for, "" when the lock is free
HolderFor(t) ==
    IF tasks[t].pc = "topic_wait" THEN locks.topics[Head(tasks[t].topics)]
    ELSE locks.global
Blocked(t) == Waiting(t) /\ HolderFor(t) # ""
\* C39: the buffer's locks cannot deadlock: in every interleaving of
\* add_to_buffer, get_buffer_size, get_topic_buffer_sizes, get_fill_rates,
\* process_batch and process_all_batches there is no set of tasks each of
\* which waits for a lock that a task of the set holds, and no task holds
\* the global lock while it waits for the lock of a subject.
C39_NoDeadlock ==
    /\ \A S \in SUBSET Tasks :
          S # {} => \E t \in S : ~(Blocked(t) /\ HolderFor(t) \in S)
    /\ \A t \in Tasks : ~(tasks[t].pc = "topic_wait" /\ locks.global = t)
\* process_all_batches holds the lock of a subject and waits for the global
\* lock, which get_buffer_size holds
C39_Witness ==
    /\ tasks["flush"].pc = "nested_wait"
    /\ locks.global = "loop" /\ tasks["loop"].op = "get_buffer_size"
    /\ \E t \in {"h1", "h2"} : Blocked(t) /\ HolderFor(t) = "flush"
TrackKinds == {"PlayerTrack", "BallTrack"}
\* the relationships into node n
EdgesInto(g, n) == {r \in g.rels : r.to = n.id}
\* C40: after any sweep, every PlayerTrack and BallTrack node that survives
\* it still has its HAS_ACTIVE_TRACK relationship from its Frame and its
\* TRACKS_PLAYER / TRACKS_BALL relationship from its Camera: the sweeper
\* deletes no Frame or Camera that a surviving track references.
C40_SurvivorsKeepEdges ==
    last.swept =>
       \A n \in graph.nodes :
          (n.label \in TrackKinds /\ n \in last.before.nodes) =>
             /\ EdgesInto(last.before, n) \subseteq graph.rels
             /\ \A r \in EdgesInto(last.before, n) :
                   \E f \in graph.nodes : f.id = r.from
====
